---- MODULE Spec2Model ----
\* DreamMesh orchestration core: the dependency sequencer, the code
\* sanitizer and the generate / verify / assemble pipeline of App.runPipeline.
EXTENDS Integers, Sequences, FiniteSets, TLC

\* ------------------------------------------------------------------ bounds
\* largest number of components in a plan handed to the sequencer
MaxComponents == 3
\* largest total number of dependency entries in such a plan
MaxEdges == 3
\* largest number of text fragments in a text handed to the sanitizer
MaxFragments == 3
\* largest number of components in a plan the planning oracle returns
MaxPlanLen == 3
\* largest number of failures (oracle errors, execution errors, QC
\* rejections) injected into one run
MaxFaults == 4
\* refused run requests in a row
MaxRefusals == 1
\* largest number of objects put on a stage that is captured on its own
MaxStageObjects == 2

\* ------------------------------------------------------ program constants
\* while (!verified && currentArtifact.retryCount < 4)
MaxComponentRetries == 4
\* while (!attached && retries < 4)
MaxAttachRetries == 4
\* the 8 cube-corner views of one capture
NumViews == 8
\* cameraDistance = 5, in thousandths
DefaultCameraDistance == 5000
\* cameraDistance < 0.1, in thousandths
MinCameraDistance == 100
\* stand-in for Number.MAX_VALUE, in thousandths: a larger result is Infinity
MaxNumberValue == 10000000


\* ------------------------------------------------------------------- state
\* the sequencer run on its own
VARIABLES sortPlan, sortPc, sortOut

sortVars == <<sortPlan, sortPc, sortOut>>

\* the sanitizer run on its own
VARIABLES sanText, sanFrags, sanPc, sanPrev, sanCur

sanVars == <<sanText, sanFrags, sanPc, sanPrev, sanCur>>

\* the render stage captured on its own
VARIABLES
  capMounted,   \* the stage's effect has run: renderer, scene, group, camera set
  capStage,     \* children of the root group, as bounding-box sizes
  capShots,     \* what the last captureSnapshots call returned
  capDistance   \* the cameraDistance that call used

capVars == <<capMounted, capStage, capShots, capDistance>>

\* the pipeline
VARIABLES
  phase,              \* useState<AppPhase>
  pc,                 \* where runPipeline is suspended ("idle": no run in flight)
  plan,               \* plan.components of the run
  components,         \* pipelineComponents / the components state: id -> artifact
  validatedObjects,   \* validatedObjectsRef.current: id -> Object3D
  stage,              \* children of the stage's root group, as object names
  object3d,           \* the object executeGeneratedCode returned last
  contextImages,      \* collectedContextImages
  compIdx,            \* index in plan.components of the component in processComponent
  verified,           \* processComponent's local flag
  snapshots,          \* processComponent's captured snapshot set
  genReq, qcReq,      \* generateComponentCode / performVisualQC calls per component
  faults,             \* failures injected so far in this run
  phasesSeen          \* the phases setPhase was called with in this run

VARIABLES
  sortedComponents,           \* sortComponentsTopologically(plan.components)
  partIdx,                    \* index in sortedComponents of partComp
  attached, retries, errorContext,
  rootObject,                 \* the committed anchor
  testRoot,                   \* the draft clone of the current attempt
  currentAssemblySnapshots, testSnapshots,
  attReq, asmQcReq,           \* generateAttachmentCode / performAssemblyQC calls per part
  attachedParts, skippedParts \* parts logged "Attached Successfully" / "Skipping"

VARIABLES
  logs,       \* useState<LogEntry[]>: the log stream, newest event first
  recording   \* whether the log stream is observed (LogSpec) or left out (Spec)

logVars == <<logs, recording>>

VARIABLES
  usage,            \* useState<Record<string, number>>: runs started per model
  isUnlocked,       \* useState(false), loaded from localStorage
  selectedModelId,  \* useState(MODELS[0].id)
  metered           \* whether the usage counts are observed (QuotaSpec) or the
                    \* limit check is left open (Spec, LogSpec)

quotaVars == <<usage, isUnlocked, selectedModelId, metered>>

verifyVars == <<plan, components, validatedObjects, object3d, contextImages,
                compIdx, verified, snapshots, genReq, qcReq>>

assemblyVars == <<sortedComponents, partIdx, attached, retries, errorContext,
                  rootObject, testRoot, currentAssemblySnapshots, testSnapshots,
                  attReq, asmQcReq, attachedParts, skippedParts>>

pipeVars == <<phase, pc, stage, faults, phasesSeen, verifyVars, assemblyVars,
              logVars,
             quotaVars>>


\* ------------------------------------------------------------- sequencer
\* Component ids are 1..MaxComponents; 0 is an id that no plan member has
\* (a dangling dependency).
DanglingId == 0
CompIds == 1..MaxComponents
NoNode == [id |-> -1, dependencies |-> <<>>]

\* components.find(c => c.id === nodeId): the first match, or undefined
FindComponent(comps, nodeId) ==
  IF \E i \in 1..Len(comps) : comps[i].id = nodeId
  THEN comps[CHOOSE i \in 1..Len(comps) :
                    /\ comps[i].id = nodeId
                    /\ \A j \in 1..(i - 1) : comps[j].id # nodeId]
  ELSE NoNode

RECURSIVE visit(_, _, _)
RECURSIVE visitDeps(_, _, _, _)

\* node.dependencies.forEach(depId => visit(depId))
visitDeps(comps, deps, i, st) ==
  IF i > Len(deps) THEN st
  ELSE visitDeps(comps, deps, i + 1, visit(comps, deps[i], st))

\* variant of visit that appends the node before its dependencies
visitPreOrder(comps, nodeId, st) ==
  IF nodeId \in st.visited THEN st
  ELSE IF nodeId \in st.tempVisited THEN st
  ELSE LET st1 == [st EXCEPT !.tempVisited = @ \cup {nodeId}, !.calls = @ + 1]
           node == FindComponent(comps, nodeId)
       IN  IF node = NoNode THEN st1
           ELSE visitDeps(comps, node.dependencies, 1,
                          [st1 EXCEPT !.visited = @ \cup {nodeId},
                                      !.sorted = Append(@, node)])

\* variant of visit without the "if (node)" guard: a dangling id is appended
visitNoGuard(comps, nodeId, st) ==
  IF nodeId \in st.visited THEN st
  ELSE IF nodeId \in st.tempVisited THEN st
  ELSE LET st1 == [st EXCEPT !.tempVisited = @ \cup {nodeId}, !.calls = @ + 1]
           node == FindComponent(comps, nodeId)
           st2 == visitDeps(comps, node.dependencies, 1, st1)
       IN  [st2 EXCEPT !.visited = @ \cup {nodeId},
                       !.sorted = Append(@, node)]

\* variant of visit that puts the node at the front of the output
visitUnshift(comps, nodeId, st) ==
  IF nodeId \in st.visited THEN st
  ELSE IF nodeId \in st.tempVisited THEN st
  ELSE LET st1 == [st EXCEPT !.tempVisited = @ \cup {nodeId}, !.calls = @ + 1]
           node == FindComponent(comps, nodeId)
       IN  IF node = NoNode THEN st1
           ELSE LET st2 == visitDeps(comps, node.dependencies, 1, st1)
                IN  [st2 EXCEPT !.visited = @ \cup {nodeId},
                                !.sorted = <<node>> \o @]

\* const visit = (nodeId) => { ... }; st.calls counts the bodies entered
visit(comps, nodeId, st) ==
  IF nodeId \in st.visited THEN st
  ELSE IF nodeId \in st.tempVisited THEN st
  ELSE LET st1 == [st EXCEPT !.tempVisited = @ \cup {nodeId}, !.calls = @ + 1]
           node == FindComponent(comps, nodeId)
       IN  IF node = NoNode THEN st1
           ELSE LET st2 == visitDeps(comps, node.dependencies, 1, st1)
                IN  [st2 EXCEPT !.visited = @ \cup {nodeId},
                                !.sorted = Append(@, node)]

RECURSIVE visitAll(_, _, _)
\* components.forEach(c => visit(c.id))
visitAll(comps, i, st) ==
  IF i > Len(comps) THEN st
  ELSE visitAll(comps, i + 1, visit(comps, comps[i].id, st))

SortState0 == [visited |-> {}, tempVisited |-> {}, sorted |-> <<>>, calls |-> 0]

sortRun(comps) == visitAll(comps, 1, SortState0)

sortComponentsTopologically(comps) == sortRun(comps).sorted

\* --- helpers over plans
PlanIds(comps) == {comps[i].id : i \in 1..Len(comps)}

DepSet(c) == {c.dependencies[k] : k \in 1..Len(c.dependencies)}

TotalEdges(comps) ==
  LET RECURSIVE Sum(_)
      Sum(i) == IF i = 0 THEN 0 ELSE Len(comps[i].dependencies) + Sum(i - 1)
  IN  Sum(Len(comps))

\* the position of the component with this id in a sequence of comps
IndexOf(seq, id) == CHOOSE i \in 1..Len(seq) : seq[i].id = id

\* ids reachable from id "from" along one or more in-plan dependency edges
RECURSIVE ReachFrom(_, _, _)
ReachFrom(comps, frontier, seen) ==
  LET next == UNION {DepSet(FindComponent(comps, n)) : n \in frontier}
      new == (next \cap PlanIds(comps)) \ seen
  IN  IF new = {} THEN seen ELSE ReachFrom(comps, new, seen \cup new)

Reaches(comps, from, to) == to \in ReachFrom(comps, {from}, {})

Acyclic(comps) ==
  \A id \in PlanIds(comps) : ~Reaches(comps, id, id)

\* ------------------------------------------------------------- sanitizer
\* Text is a sequence of characters, each a one-character string; the
\* backquote character (U+0060) is written "BQ", and FENCE is three of them.
Chars(str) ==
  CASE str = "export"     -> <<"e", "x", "p", "o", "r", "t">>
    [] str = "default"    -> <<"d", "e", "f", "a", "u", "l", "t">>
    [] str = "function"   -> <<"f", "u", "n", "c", "t", "i", "o", "n">>
    [] str = "import"     -> <<"i", "m", "p", "o", "r", "t">>
    [] str = "from"       -> <<"f", "r", "o", "m">>
    [] str = "javascript" -> <<"j", "a", "v", "a", "s", "c", "r", "i", "p", "t">>
    [] str = "js"         -> <<"j", "s">>
    [] str = "FENCE"      -> <<"BQ", "BQ", "BQ">>
    [] str = "ex"         -> <<"e", "x">>
    [] str = "port"       -> <<"p", "o", "r", "t">>
    [] OTHER              -> <<str>>

\* \s of a JavaScript regular expression
IsWs(c) == c \in {" ", "\n", "\t"}

\* . of a JavaScript regular expression: anything but a line terminator
IsDot(c) == c # "\n"

\* the literal lit occurs in s at index i
LitAt(s, i, lit) ==
  /\ i >= 1
  /\ i + Len(lit) - 1 <= Len(s)
  /\ SubSeq(s, i, i + Len(lit) - 1) = lit

\* the index after the longest run of whitespace that starts at j (greedy \s*)
WsEnd(s, j) ==
  CHOOSE k \in j..(Len(s) + 1) :
    /\ \A m \in j..(k - 1) : IsWs(s[m])
    /\ k = Len(s) + 1 \/ ~IsWs(s[k])

\* s[from..to] holds no line terminator, so ".*?" can span it
DotSpan(s, from, to) == \A m \in from..to : IsDot(s[m])

Min(S) == CHOOSE x \in S : \A y \in S : x <= y

\* Each pattern matcher gives the index just after the match that starts at
\* i, or 0 when the pattern does not match at i.

\* /export\s+default\s+function/
MatchExportDefaultFunction(s, i) ==
  IF ~LitAt(s, i, Chars("export")) THEN 0
  ELSE LET b == WsEnd(s, i + 6)
       IN  IF b = i + 6 \/ ~LitAt(s, b, Chars("default")) THEN 0
           ELSE LET d == WsEnd(s, b + 7)
                IN  IF d = b + 7 \/ ~LitAt(s, d, Chars("function")) THEN 0
                    ELSE d + 8

\* /export\s+default\s+/
MatchExportDefault(s, i) ==
  IF ~LitAt(s, i, Chars("export")) THEN 0
  ELSE LET b == WsEnd(s, i + 6)
       IN  IF b = i + 6 \/ ~LitAt(s, b, Chars("default")) THEN 0
           ELSE LET d == WsEnd(s, b + 7)
                IN  IF d = b + 7 THEN 0 ELSE d

\* /export\s+/
MatchExport(s, i) ==
  IF ~LitAt(s, i, Chars("export")) THEN 0
  ELSE LET b == WsEnd(s, i + 6)
       IN  IF b = i + 6 THEN 0 ELSE b

\* from\s+.*?; starting at f: the first ";" after the whitespace run, on the
\* same line (a shorter \s+ only adds characters that "." has to span)
MatchFromToSemicolon(s, f) ==
  IF ~LitAt(s, f, Chars("from")) THEN 0
  ELSE LET h == WsEnd(s, f + 4)
           C == {c \in h..Len(s) : s[c] = ";" /\ DotSpan(s, h, c - 1)}
       IN  IF h = f + 4 \/ C = {} THEN 0 ELSE Min(C) + 1

\* from\s+.*? at the end of a pattern: the lazy ".*?" matches nothing
MatchFromLazy(s, f) ==
  IF ~LitAt(s, f, Chars("from")) THEN 0
  ELSE LET h == WsEnd(s, f + 4)
       IN  IF h = f + 4 THEN 0 ELSE h

\* /import\s+.*?from\s+.*?;/  (lazy: the nearest "from" that lets the rest
\* match)
MatchImportSemicolon(s, i) ==
  IF ~LitAt(s, i, Chars("import")) THEN 0
  ELSE LET b == WsEnd(s, i + 6)
           F == {f \in b..Len(s) :
                   DotSpan(s, b, f - 1) /\ MatchFromToSemicolon(s, f) # 0}
       IN  IF b = i + 6 \/ F = {} THEN 0 ELSE MatchFromToSemicolon(s, Min(F))

\* /import\s+.*?from\s+.*?/
MatchImport(s, i) ==
  IF ~LitAt(s, i, Chars("import")) THEN 0
  ELSE LET b == WsEnd(s, i + 6)
           F == {f \in b..Len(s) :
                   DotSpan(s, b, f - 1) /\ MatchFromLazy(s, f) # 0}
       IN  IF b = i + 6 \/ F = {} THEN 0 ELSE MatchFromLazy(s, Min(F))

MatchEnd(p, s, i) ==
  CASE p = 1 -> MatchExportDefaultFunction(s, i)
    [] p = 2 -> MatchExportDefault(s, i)
    [] p = 3 -> MatchExport(s, i)
    [] p = 4 -> MatchImportSemicolon(s, i)
    [] p = 5 -> MatchImport(s, i)

Replacement(p) == IF p = 1 THEN Chars("function") ELSE <<>>

\* String.prototype.replace with a /g pattern: leftmost matches, left to
\* right, never overlapping; the replaced text is not scanned again
RECURSIVE ReplaceFrom(_, _, _)
ReplaceFrom(p, s, i) ==
  IF i > Len(s) THEN <<>>
  ELSE LET e == MatchEnd(p, s, i)
       IN  IF e > 0 THEN Replacement(p) \o ReplaceFrom(p, s, e)
           ELSE <<s[i]>> \o ReplaceFrom(p, s, i + 1)

ReplaceAll(p, s) == ReplaceFrom(p, s, 1)

\* the chain of five replace calls shared by cleanCode and sanitizeCode
StripModuleSyntax(code) ==
  ReplaceAll(5, ReplaceAll(4, ReplaceAll(3, ReplaceAll(2, ReplaceAll(1, code)))))

sanitizeCode(code) == StripModuleSyntax(code)

\* /FENCE(?:javascript|js)?\s*([\s\S]*?)\s*FENCE/ starting at the fence at i:
\* <<start, end>> of the capture group (end exclusive), or <<0, 0>>
FenceCapture(s, i) ==
  IF ~LitAt(s, i, Chars("FENCE")) THEN <<0, 0>>
  ELSE LET l == IF LitAt(s, i + 3, Chars("javascript")) THEN i + 13
                ELSE IF LitAt(s, i + 3, Chars("js")) THEN i + 5
                ELSE i + 3
           k == WsEnd(s, l)
           A == {a \in k..(Len(s) + 1) : LitAt(s, WsEnd(s, a), Chars("FENCE"))}
       IN  IF A = {} THEN <<0, 0>> ELSE <<k, Min(A)>>

cleanCode(text) ==
  LET I == {i \in 1..Len(text) : FenceCapture(text, i) # <<0, 0>>}
      code == IF I = {} THEN text
              ELSE LET m == FenceCapture(text, Min(I))
                   IN  SubSeq(text, m[1], m[2] - 1)
  IN  StripModuleSyntax(code)

\* -------------------------------------------------------------- pipeline

\* --- values
\* A text (a message, a feedback) is a tuple; the empty string is <<>>.
EmptyText == <<>>

\* An Object3D: the component it was built for and by which generation
\* request, its child list (the parts added under it) and its transform.
NoObject == [component |-> 0, build |-> 0, children |-> <<>>,
             position |-> <<"none">>, rotation |-> <<"none">>,
             scale |-> <<"none">>]

\* code: '' of a fresh artifact
NoCode == [kind |-> "none", request |-> 0]

\* what the construction oracle's code does when it is executed: createPart
\* returns an Object3D, or the execution throws (no createPart, an exception,
\* a result that is no Object3D)
ComponentCodeKinds == {"object", "invalid"}

\* const text = response.text || ""; return cleanCode(text): the oracle may
\* also answer with no text, and the code is then the empty string
EmptyCodeKinds == {"empty"}

TransformFields == {"position", "rotation", "scale"}

\* what the attachment oracle's code does when it is executed: whether it
\* adds the part under the root, which root transforms it rewrites, and
\* whether it throws afterwards. The code considered adds the part and
\* rewrites every transform of the root, and then returns or throws.
AttachCodes ==
  {[throws |-> t, adds |-> TRUE, moves |-> TransformFields] : t \in BOOLEAN}

\* plans the planning oracle may return: ids unique, the i-th component has
\* id i; each declares its predecessor (the first one nothing), or each
\* declares its successor (the last one a dangling id)
PlanShapes == {"chain", "reversed"}

PlanOfLen(n, shape) ==
  [i \in 1..n |->
     [id |-> i,
      dependencies |-> CASE shape = "chain" /\ i = 1 -> <<>>
                         [] shape = "chain" /\ i > 1 -> <<i - 1>>
                         [] shape = "reversed"       -> <<i + 1>>]]

PipelinePlans == {PlanOfLen(n, shape) : n \in 0..MaxPlanLen, shape \in PlanShapes}

\* useRef({}) / useState({}): the empty record
EmptyMap == [id \in {} |-> NoObject]

Has(map, id) == id \in DOMAIN map

Put(map, id, value) ==
  [k \in DOMAIN map \cup {id} |-> IF k = id THEN value ELSE map[k]]

\* initialComponents[c.id] = { plan: c, code: '', status: 'PENDING', ... }
NewArtifact(c) ==
  [plan |-> c, code |-> NoCode, status |-> "PENDING", retryCount |-> 0,
   qcHistory |-> <<>>, errorLogs |-> <<>>, images |-> <<>>]

\* variant of the verification loop's guard that allows one more iteration
ComponentLoopGuardOffByOne(isVerified, retryCount) ==
  ~isVerified /\ retryCount <= MaxComponentRetries

\* variant of the loop guard that goes on after a QC pass
ComponentLoopGuardIgnoresVerified(isVerified, retryCount) ==
  retryCount < MaxComponentRetries

\* while (!verified && currentArtifact.retryCount < 4)
ComponentLoopGuard(isVerified, retryCount) ==
  ~isVerified /\ retryCount < MaxComponentRetries

\* variant of processComponent's exit that returns an unverified artifact
ProcessComponentNeverThrows(isVerified) == FALSE

\* if (!verified) throw new Error("Failed to generate stable component ...")
ProcessComponentThrows(isVerified) == ~isVerified

\* variant that announces every attempt as a fix
GenerationPhaseAlwaysFixing(retryCount) == "FIXING"

\* setPhase(retryCount === 0 ? GENERATING : FIXING)
GenerationPhase(retryCount) == IF retryCount = 0 THEN "GENERATING" ELSE "FIXING"

\* executeGeneratedCode: the object createPart returned, or a throw (parse
\* error, exception, or a result that is no Object3D)
executeGeneratedCode(code, id) ==
  IF code.kind = "object"
  THEN [threw |-> FALSE,
        object |-> [component |-> id, build |-> code.request, children |-> <<>>,
                    position |-> <<"built">>, rotation |-> <<"built">>,
                    scale |-> <<"built">>]]
  ELSE [threw |-> TRUE, object |-> NoObject]

\* Object3D.clone(): a recursive copy
CloneObject(obj) == obj

\* variant that takes the stored object itself instead of a clone of it
ValidatedItself(stored) == [object |-> stored, isClone |-> FALSE]

\* validatedObjectsRef.current[id].clone(): the object handed on, which is
\* not the stored one
CloneOfValidated(stored) == [object |-> CloneObject(stored), isClone |-> TRUE]

\* the stored object after taken.object was written to: a write to a clone
\* does not reach it, a write to the stored object itself does
WrittenThrough(taken, stored, written) ==
  IF taken.isClone THEN stored ELSE written

\* rootObject.position.sub(center)
Recenter(obj) == [obj EXCEPT !.position = <<"centered">>]

\* variant of the attachment loop's guard that allows one more attempt
AttachLoopGuardOffByOne(isAttached, retryCount) ==
  ~isAttached /\ retryCount <= MaxAttachRetries

\* while (!attached && retries < 4)
AttachLoopGuard(isAttached, retryCount) ==
  ~isAttached /\ retryCount < MaxAttachRetries

\* executeAttachmentCode: attach(root, part) mutates root and part in place
\* (the part is moved, rotated and scaled, and added to the root)
executeAttachmentCode(code, root, part) ==
  LET partId == part.component
  IN  [threw |-> code.throws,
       root |-> [root EXCEPT
          !.children = IF code.adds THEN Append(@, partId) ELSE @,
          !.position = IF "position" \in code.moves THEN <<"moved", partId>> ELSE @,
          !.rotation = IF "rotation" \in code.moves THEN <<"moved", partId>> ELSE @,
          !.scale    = IF "scale" \in code.moves THEN <<"moved", partId>> ELSE @],
       part |-> [part EXCEPT
          !.position = <<"placed", root.component>>,
          !.rotation = <<"placed", root.component>>,
          !.scale    = <<"placed", root.component>>]]

\* rootObject.children = [...testRoot.children]; position / rotation /
\* scale .copy(testRoot...)
Commit(root, test) ==
  [root EXCEPT !.children = test.children, !.position = test.position,
               !.rotation = test.rotation, !.scale = test.scale]

\* variant of the verdict handling that commits whatever the verdict is
CommitAlways(passed, root, test) == Commit(root, test)

\* if (qcResult.passed) { commit } else { ... }: the anchor afterwards
AfterAssemblyQC(passed, root, test) ==
  IF passed THEN Commit(root, test) ELSE root

\* variant of the verdict handling that keeps the capture of every attempt
AssemblySnapshotsAlwaysUpdated(passed, current, test) == test

\* if (qcResult.passed) { ...; currentAssemblySnapshots = testSnapshots }
AssemblySnapshotsAfterQC(passed, current, test) ==
  IF passed THEN test ELSE current

\* variant of the attempt's error handling without the inner try / catch
AttachNoCatch(message, retryCount) ==
  [errorContext |-> message, retries |-> retryCount + 1, rethrown |-> TRUE]

\* catch (e) { errorContext = e.message; retries++; }
AttachCatch(message, retryCount) ==
  [errorContext |-> message, retries |-> retryCount + 1, rethrown |-> FALSE]

\* variant of resetScene that leaves the group's children in place
resetSceneKeeps(stg) == stg

\* ThreeStage.resetScene: rootGroupRef.current.clear()
resetScene(stg) == <<>>

\* ThreeStage.addObject: rootGroupRef.current.add(obj)
addObject(stg, name) == Append(stg, name)

\* variant of the skip handling that leaves the rejected draft on the stage
StageLeftAsIs(stg) == stg

\* if (!attached) { resetScene(); addObject(rootObject); }
StageAfterSkip(stg) == addObject(resetScene(stg), "rootObject")

\* a string is truthy when it is not empty (and not undefined)
Truthy(text) == text # EmptyText

CodeTruthy(code) == code.kind \notin {"none", "empty"}

\* variant of the error context that prefers the QC feedback
FeedbackFirst(art) ==
  IF Len(art.qcHistory) > 0 /\ ~art.qcHistory[1].passed
  THEN art.qcHistory[1].feedback
  ELSE IF Len(art.errorLogs) > 0 THEN art.errorLogs[Len(art.errorLogs)]
  ELSE EmptyText

\* const errorContext = lastError || lastFeedback
ErrorContextOf(art) ==
  LET lastError    == IF Len(art.errorLogs) > 0
                      THEN art.errorLogs[Len(art.errorLogs)] ELSE EmptyText
      lastFeedback == IF Len(art.qcHistory) > 0 /\ ~art.qcHistory[1].passed
                      THEN art.qcHistory[1].feedback ELSE EmptyText
  IN  IF Truthy(lastError) THEN lastError ELSE lastFeedback

\* generateComponentCode / generateAttachmentCode: what the prompt sent to
\* the oracle carries of the two optional arguments:
\* if (previousCode && errorContext) prompt += ...
PromptRetryPart(previousCode, context) ==
  IF CodeTruthy(previousCode) /\ Truthy(context)
  THEN [errorContext |-> context, previousCode |-> previousCode]
  ELSE [errorContext |-> EmptyText, previousCode |-> NoCode]

\* variant of the verdict handling that stores the object on every verdict
ValidatedStoredAlways(passed, objs, id, obj) == Put(objs, id, obj)

\* if (qcResult.passed) { ...; validatedObjectsRef.current[id] = object3d }
ValidatedAfterQC(passed, objs, id, obj) ==
  IF passed THEN Put(objs, id, obj) ELSE objs

\* variant of the history update that puts the newest result last
QcHistoryPushed(history, result) == Append(history, result)

\* currentArtifact.qcHistory.unshift(qcResult)
QcHistoryAfter(history, result) == <<result>> \o history

\* variant of the verdict handling that keeps the first snapshot of every
\* judged attempt
ContextPushAlways(passed, ctx, snaps) ==
  IF Len(snaps) > 0 THEN Append(ctx, snaps[1]) ELSE ctx

\* if (qcResult.passed) { ... if (snapshots.length > 0)
\* contextImages.push(snapshots[0]) }
ContextAfterQC(passed, ctx, snaps) ==
  IF passed /\ Len(snaps) > 0 THEN Append(ctx, snaps[1]) ELSE ctx

\* const MODELS = [...]: id and dailyLimit of each model tier
MODELS ==
  <<[id |-> "gemini-2.5-flash", dailyLimit |-> 10],
    [id |-> "gemini-2.5-pro", dailyLimit |-> 3],
    [id |-> "gemini-3-pro-preview", dailyLimit |-> 1]>>

ModelIds == {MODELS[i].id : i \in 1..Len(MODELS)}

\* MODELS.find(m => m.id === selectedModelId)
ModelDef(id) == MODELS[CHOOSE i \in 1..Len(MODELS) : MODELS[i].id = id]

\* const currentCount = usage[selectedModelId] || 0
CurrentCount(counts, id) == IF id \in DOMAIN counts THEN counts[id] ELSE 0

\* variant of the limit check that lets one more run through
LimitReachedOffByOne(unlocked, id, counts) ==
  /\ ~unlocked
  /\ ModelDef(id).dailyLimit # -1
  /\ CurrentCount(counts, id) > ModelDef(id).dailyLimit

\* !isUnlocked && modelDef && modelDef.dailyLimit !== -1 &&
\* currentCount >= modelDef.dailyLimit
LimitReached(unlocked, id, counts) ==
  /\ ~unlocked
  /\ ModelDef(id).dailyLimit # -1
  /\ CurrentCount(counts, id) >= ModelDef(id).dailyLimit

\* if (!isUnlocked && modelDef && modelDef.dailyLimit !== -1)
\* setUsage({ ...usage, [selectedModelId]: currentCount + 1 })
UsageAfterStart(unlocked, id, counts) ==
  IF ~unlocked /\ ModelDef(id).dailyLimit # -1
  THEN [m \in DOMAIN counts \cup {id} |->
          IF m = id THEN CurrentCount(counts, id) + 1 ELSE counts[m]]
  ELSE counts

\* the counts loaded from localStorage: the first tier (the one selected
\* when the component is created) and the third used up, one run left on
\* the second
LoadedUsage ==
  [m \in ModelIds |->
     CASE m = "gemini-2.5-flash" -> 10
       [] m = "gemini-2.5-pro" -> 2
       [] m = "gemini-3-pro-preview" -> 1]

\* variant of the Generate button that is never disabled
GenerateAlwaysEnabled(ph) == TRUE

\* the Generate button: disabled={phase !== IDLE && phase !== COMPLETED &&
\* phase !== ERROR}; its onClick is the only caller of runPipeline
GenerateEnabled(ph) == ph \in {"IDLE", "COMPLETED", "ERROR"}

\* variant of runPipeline's catch that reports the run as completed
OuterCatchCompleted == [phase |-> "COMPLETED", pc |-> "idle"]

\* variant of runPipeline's catch after which the run goes on to assembly
OuterCatchGoesOn == [phase |-> "ERROR", pc |-> "assembly"]

\* catch (e) { addLog(...); setPhase(AppPhase.ERROR); } and runPipeline
\* returns: no run is in flight any more
OuterCatch == [phase |-> "ERROR", pc |-> "idle"]

\* variant of the render delay whose promise is never resolved
DelayNeverElapses == FALSE

\* await new Promise(r => setTimeout(r, 200 or 400)) before a capture: the
\* timer fires
DelayElapses == TRUE

\* variant of addLog that keeps only the newest event
addLogReplaces(lg, ph, message, type) ==
  <<[phase |-> ph, message |-> message, type |-> type]>>

\* addLog: setLogs(prev => [{ timestamp, phase, message, type }, ...prev]),
\* where phase is the value the callback closed over. The timestamp
\* (Date.now()) is left out of the event.
addLog(lg, ph, message, type) ==
  <<[phase |-> ph, message |-> message, type |-> type]>> \o lg

\* consecutive addLog calls; an event is a pair <<message, type>>
RECURSIVE addLogs(_, _, _)
addLogs(lg, ph, events) ==
  IF events = <<>> THEN lg
  ELSE addLogs(addLog(lg, ph, events[1][1], events[1][2]), ph, Tail(events))

\* setLogs([])
ClearedLogs == <<>>

\* the newest events of the stream that are refusals of a run request
RECURSIVE RefusalsAtHead(_)
RefusalsAtHead(lg) ==
  IF lg = <<>> \/ lg[1].message # <<"Daily limit reached">> THEN 0
  ELSE 1 + RefusalsAtHead(Tail(lg))

\* the objects the names on the stage denote
Deref(name, root, test, obj) ==
  CASE name = "rootObject" -> root
    [] name = "testRoot"   -> test
    [] name = "object3d"   -> obj

StageContent == [i \in 1..Len(stage) |-> Deref(stage[i], rootObject, testRoot, object3d)]

\* variant of signs with the negative sign first
signsMinusFirst == <<-1, 1>>

\* const signs = [1, -1]
signs == <<1, -1>>

\* for (const x of signs) for (const y of signs) for (const z of signs)
\* positions.push(new THREE.Vector3(x, y, z)...): the directions in the
\* order the loop nest pushes them
CornerDirections ==
  LET n == Len(signs)
  IN  [k \in 1..(n * n * n) |->
         [x |-> signs[((k - 1) \div (n * n)) + 1],
          y |-> signs[(((k - 1) \div n) % n) + 1],
          z |-> signs[((k - 1) % n) + 1]]]

\* ThreeStage.captureSnapshots: for (const offset of positions) one image
\* is rendered and pushed
captureSnapshots(content) ==
  [k \in 1..Len(CornerDirections) |->
     [x |-> CornerDirections[k].x,
      y |-> CornerDirections[k].y,
      z |-> CornerDirections[k].z,
      scene |-> content]]

\* --- the numbers of the auto-framing: a JavaScript number is a finite
\* value (an integer count of thousandths), Infinity or NaN
Num(n) == [kind |-> "number", val |-> n]
Infinity == [kind |-> "Infinity", val |-> 0]
NaN == [kind |-> "NaN", val |-> 0]

\* isFinite(v)
isFinite(v) == v.kind = "number"

\* Math.max(a, b): NaN if either is NaN
MathMax(a, b) ==
  IF a.kind = "NaN" \/ b.kind = "NaN" THEN NaN
  ELSE IF a.kind = "Infinity" \/ b.kind = "Infinity" THEN Infinity
  ELSE IF a.val >= b.val THEN a ELSE b

\* new THREE.Box3().setFromObject(group), box.getSize(size): the size of
\* the union of the children's boxes (all centred on the origin); an empty
\* box has size (0, 0, 0)
RECURSIVE BoxSize(_)
BoxSize(content) ==
  IF content = <<>> THEN [x |-> Num(0), y |-> Num(0), z |-> Num(0)]
  ELSE LET rest == BoxSize(Tail(content))
           o == Head(content)
       IN  [x |-> MathMax(o.x, rest.x), y |-> MathMax(o.y, rest.y),
            z |-> MathMax(o.z, rest.z)]

\* const maxDim = Math.max(size.x, size.y, size.z)
MaxDim(size) == MathMax(MathMax(size.x, size.y), size.z)

\* Math.abs(maxDim / (2 * Math.tan(fov / 2))) * 1.5 for the camera's fov of
\* 45 degrees: 2 * tan(22.5 deg) = 0.8284..., taken as 29 / 35, so the
\* factor is 105 / 58
ComputedDistance(maxDim) ==
  IF maxDim.kind = "number"
  THEN LET magnitude == IF maxDim.val < 0 THEN -maxDim.val ELSE maxDim.val
           scaled == (magnitude * 105) \div 58
       IN  IF scaled > MaxNumberValue THEN Infinity ELSE Num(scaled)
  ELSE maxDim

\* variant of the auto-framing without the fallback
cameraDistanceNoFallback(maxDim) == ComputedDistance(maxDim)

\* let cameraDistance = ...; if (maxDim === 0 || !isFinite(cameraDistance)
\* || cameraDistance < 0.1) cameraDistance = 5
cameraDistance(maxDim) ==
  LET computed == ComputedDistance(maxDim)
  IN  IF \/ (maxDim.kind = "number" /\ maxDim.val = 0)
         \/ ~isFinite(computed)
         \/ (computed.kind = "number" /\ computed.val < MinCameraDistance)
      THEN Num(DefaultCameraDistance)
      ELSE computed

\* the bounding-box sizes of the objects put on the stage: a point, a
\* plate just under the 0.1 threshold, a cube just over it, a unit cube, a
\* large object, one whose distance overflows, and objects with a
\* non-finite vertex
StageObjectSizes ==
  {[x |-> Num(0), y |-> Num(0), z |-> Num(0)],
   [x |-> Num(55), y |-> Num(10), z |-> Num(0)],
   [x |-> Num(56), y |-> Num(56), z |-> Num(56)],
   [x |-> Num(1000), y |-> Num(1000), z |-> Num(1000)],
   [x |-> Num(250000), y |-> Num(2000), z |-> Num(0)],
   [x |-> Num(MaxNumberValue), y |-> Num(1000), z |-> Num(1000)],
   [x |-> Infinity, y |-> Num(1000), z |-> Num(1000)],
   [x |-> Num(1000), y |-> NaN, z |-> Num(1000)]}

\* no capture made yet
NoDistance == [kind |-> "none", val |-> 0]

vars == <<sortVars, sanVars, pipeVars, capVars>>

\* ------------------------------------------------------- initial states
SortInit ==
  /\ sortPlan = <<>>
  /\ sortPc = "build"
  /\ sortOut = SortState0

SanInit ==
  /\ sanText = <<>>
  /\ sanFrags = 0
  /\ sanPc = "raw"
  /\ sanPrev = <<>>
  /\ sanCur = <<>>

PipeInitial ==
  /\ phase = "IDLE"
  /\ pc = "idle"
  /\ plan = <<>>
  /\ components = EmptyMap
  /\ validatedObjects = EmptyMap
  /\ stage = <<>>
  /\ object3d = NoObject
  /\ contextImages = <<>>
  /\ compIdx = 0
  /\ verified = FALSE
  /\ snapshots = <<>>
  /\ genReq = EmptyMap
  /\ qcReq = EmptyMap
  /\ faults = 0
  /\ phasesSeen = {}
  /\ sortedComponents = <<>>
  /\ partIdx = 0
  /\ attached = FALSE
  /\ retries = 0
  /\ errorContext = EmptyText
  /\ rootObject = NoObject
  /\ testRoot = NoObject
  /\ currentAssemblySnapshots = <<>>
  /\ testSnapshots = <<>>
  /\ attReq = EmptyMap
  /\ asmQcReq = EmptyMap
  /\ attachedParts = <<>>
  /\ skippedParts = {}
  /\ logs = <<>>

\* usage, unlock state and selection as the component creates them
QuotaInitial ==
  /\ usage = LoadedUsage
  /\ isUnlocked = FALSE
  /\ selectedModelId = MODELS[1].id

PipeInit == PipeInitial /\ recording = FALSE /\ QuotaInitial /\ metered = FALSE

\* the stage before ThreeStage's effect has run
CapInit ==
  /\ capMounted = FALSE
  /\ capStage = <<>>
  /\ capShots = <<>>
  /\ capDistance = NoDistance

Init == SortInit /\ SanInit /\ PipeInit /\ CapInit

\* the same application with its log stream observed
LogInit ==
  /\ SortInit /\ SanInit /\ PipeInitial /\ recording = TRUE /\ CapInit
  /\ QuotaInitial /\ metered = FALSE

\* the same application with its usage counts observed
QuotaInit ==
  /\ SortInit /\ SanInit /\ PipeInitial /\ recording = FALSE /\ CapInit
  /\ QuotaInitial /\ metered = TRUE

\* ------------------------------------------------- sequencer, driven
\* the planning oracle lists one more component (unique id, no dependency yet)
AddComponent ==
  /\ sortPc = "build"
  /\ Len(sortPlan) < MaxComponents
  /\ \E id \in CompIds \ PlanIds(sortPlan) :
       sortPlan' = Append(sortPlan, [id |-> id, dependencies |-> <<>>])
  /\ UNCHANGED <<sortPc, sortOut>>
  /\ UNCHANGED <<sanVars, pipeVars, capVars>>

\* ... and one more dependency entry of the last listed component
AddDependency ==
  /\ sortPc = "build"
  /\ Len(sortPlan) > 0
  /\ TotalEdges(sortPlan) < MaxEdges
  /\ \E d \in CompIds \cup {DanglingId} :
       sortPlan' = [sortPlan EXCEPT ![Len(sortPlan)].dependencies = Append(@, d)]
  /\ UNCHANGED <<sortPc, sortOut>>
  /\ UNCHANGED <<sanVars, pipeVars, capVars>>

RunSort ==
  /\ sortPc = "build"
  /\ sortPc' = "sorted"
  /\ sortOut' = sortRun(sortPlan)
  /\ UNCHANGED sortPlan
  /\ UNCHANGED <<sanVars, pipeVars, capVars>>

\* ------------------------------------------------- sanitizer, driven
\* The oracle's text is built from fragments that can form, split and rejoin
\* the keywords the patterns look for.
Fragments ==
  { Chars("export") \o <<" ">>, Chars("default") \o <<" ">>,
    Chars("function") \o <<" ">>, Chars("import") \o <<" ">>,
    Chars("from") \o <<" ">>, Chars("port") \o <<" ">>, Chars("ex"),
    Chars("js"), Chars("FENCE"), <<";">>, <<"x">>, <<" ">>, <<"\n">> }

\* the oracle's response text grows by one fragment
AppendFragment ==
  /\ sanPc = "raw"
  /\ sanFrags < MaxFragments
  /\ \E f \in Fragments : sanText' = sanText \o f
  /\ sanFrags' = sanFrags + 1
  /\ UNCHANGED <<sanPc, sanPrev, sanCur>>
  /\ UNCHANGED <<sortVars, pipeVars, capVars>>

\* generateComponentCode / generateAttachmentCode: return cleanCode(text)
OracleClean ==
  /\ sanPc = "raw"
  /\ sanPc' = "cleaned"
  /\ sanPrev' = sanText
  /\ sanCur' = cleanCode(sanText)
  /\ UNCHANGED <<sanText, sanFrags>>
  /\ UNCHANGED <<sortVars, pipeVars, capVars>>

\* sanitizeCode applied to an arbitrary text
SanitizeRaw ==
  /\ sanPc = "raw"
  /\ sanPc' = "sanitized"
  /\ sanPrev' = sanText
  /\ sanCur' = sanitizeCode(sanText)
  /\ UNCHANGED <<sanText, sanFrags>>
  /\ UNCHANGED <<sortVars, pipeVars, capVars>>

\* executeGeneratedCode / executeAttachmentCode: safeCode = sanitizeCode(code),
\* on a text that cleanCode or sanitizeCode produced
SanitizeAgain ==
  /\ sanPc \in {"cleaned", "sanitized"}
  /\ sanPc' = IF sanPc = "cleaned" THEN "cleaned_sanitized" ELSE "sanitized_twice"
  /\ sanPrev' = sanCur
  /\ sanCur' = sanitizeCode(sanCur)
  /\ UNCHANGED <<sanText, sanFrags>>
  /\ UNCHANGED <<sortVars, pipeVars, capVars>>

\* ------------------------------------------------ the stage, driven
\* ThreeStage's useEffect: renderer, scene, camera and root group are set
CapMount ==
  /\ ~capMounted
  /\ capMounted' = TRUE
  /\ UNCHANGED <<capStage, capShots, capDistance>>
  /\ UNCHANGED <<sortVars, sanVars, pipeVars>>

\* addObject(obj) for an object with some bounding box
CapAdd ==
  /\ capMounted
  /\ Len(capStage) < MaxStageObjects
  /\ \E size \in StageObjectSizes : capStage' = addObject(capStage, size)
  /\ UNCHANGED <<capMounted, capShots, capDistance>>
  /\ UNCHANGED <<sortVars, sanVars, pipeVars>>

\* resetScene()
CapReset ==
  /\ capMounted
  /\ capStage # <<>>
  /\ capStage' = resetScene(capStage)
  /\ UNCHANGED <<capMounted, capShots, capDistance>>
  /\ UNCHANGED <<sortVars, sanVars, pipeVars>>

\* captureSnapshots(): [] while the stage is not set up, otherwise the
\* auto-framing and one image per direction
CapCapture ==
  /\ IF ~capMounted
     THEN /\ capShots' = <<>>
          /\ UNCHANGED capDistance
     ELSE /\ capDistance' = cameraDistance(MaxDim(BoxSize(capStage)))
          /\ capShots' = captureSnapshots(capStage)
  /\ UNCHANGED <<capMounted, capStage>>
  /\ UNCHANGED <<sortVars, sanVars, pipeVars>>

\* ------------------------------------------------------ the pipeline
\* setPhase, as the sequence of values one step assigns
SetPhases(ps) ==
  /\ phase' = ps[Len(ps)]
  /\ phasesSeen' = phasesSeen \cup {ps[i] : i \in 1..Len(ps)}

\* the phase the running invocation of runPipeline closed over: addLog is
\* useCallback(..., [phase]) and runPipeline uses the addLog of the render in
\* which the Generate button was clicked, so every event of the run carries
\* the phase of that render, which the run's first event recorded
ClosurePhase == logs[Len(logs)].phase

\* addLog calls of the running invocation, in order
Emit(events) ==
  /\ logs' = IF recording THEN addLogs(logs, ClosurePhase, events) ELSE logs
  /\ UNCHANGED recording
  /\ UNCHANGED quotaVars

\* the component processComponent is working on
CurId == plan[compIdx].id

\* the part the assembly loop is working on
CurPart == sortedComponents[partIdx].id

\* the arguments of the generateComponentCode call that is in flight while
\* runPipeline is suspended at it, and what its prompt carries of them
GenerateRequest ==
  [component     |-> CurId,
   previousCode  |-> components[CurId].code,
   errorContext  |-> ErrorContextOf(components[CurId]),
   contextImages |-> contextImages,
   prompt        |-> PromptRetryPart(components[CurId].code,
                                     ErrorContextOf(components[CurId]))]

\* the arguments of the performVisualQC call in flight
VisualQCRequest ==
  [component |-> CurId, images |-> snapshots, contextImages |-> contextImages]

\* the arguments of the generateAttachmentCode call in flight: previousCode
\* is passed as undefined
AttachRequest ==
  [part                 |-> CurPart,
   currentAssemblyImages |-> currentAssemblySnapshots,
   partImages           |-> components[CurPart].images,
   previousCode         |-> NoCode,
   errorContext         |-> errorContext,
   prompt               |-> PromptRetryPart(NoCode, errorContext)]

\* the arguments of the performAssemblyQC call in flight
AssemblyQCRequest == [part |-> CurPart, images |-> testSnapshots]

Bump(counter, id) == [counter EXCEPT ![id] = @ + 1]

\* variant of the loop's catch that counts the failure without recording it
FailAttemptNoLog(art, message) ==
  [art EXCEPT !.status = "FAILED", !.retryCount = @ + 1]

\* catch (e) of the verification loop: errorLogs.push(e.message), FAILED,
\* retryCount++. The text of the exception caught in the attempt that starts
\* with retryCount n is the token <<"error", n>>.
FailAttempt(art, message) ==
  [art EXCEPT !.errorLogs = Append(@, message), !.status = "FAILED",
              !.retryCount = @ + 1]

\* the Generate button (enabled in IDLE, COMPLETED, ERROR) starts runPipeline:
\* setPhase(PLANNING), setLogs([]), setComponents({}), validatedObjects = {},
\* resetScene(), addLog("Initiating ..."), then the plan request
StartRun ==
  /\ GenerateEnabled(phase)
  /\ metered => ~LimitReached(isUnlocked, selectedModelId, usage)
  /\ usage' = IF metered
              THEN UsageAfterStart(isUnlocked, selectedModelId, usage)
              ELSE usage
  /\ UNCHANGED <<isUnlocked, selectedModelId, metered>>
  /\ phase' = "PLANNING"
  /\ phasesSeen' = {"PLANNING"}
  /\ pc' = "planning"
  /\ plan' = <<>>
  /\ components' = EmptyMap
  /\ validatedObjects' = EmptyMap
  /\ stage' = resetScene(stage)
  /\ object3d' = NoObject
  /\ contextImages' = <<>>
  /\ compIdx' = 0
  /\ verified' = FALSE
  /\ snapshots' = <<>>
  /\ genReq' = EmptyMap
  /\ qcReq' = EmptyMap
  /\ faults' = 0
  /\ sortedComponents' = <<>>
  /\ partIdx' = 0
  /\ attached' = FALSE
  /\ retries' = 0
  /\ errorContext' = EmptyText
  /\ rootObject' = NoObject
  /\ testRoot' = NoObject
  /\ currentAssemblySnapshots' = <<>>
  /\ testSnapshots' = <<>>
  /\ attReq' = EmptyMap
  /\ asmQcReq' = EmptyMap
  /\ attachedParts' = <<>>
  /\ skippedParts' = {}
  /\ logs' = IF recording
             THEN addLogs(ClearedLogs, phase, <<<<<<"Initiating">>, "info">>>>)
             ELSE logs
  /\ UNCHANGED recording
  /\ UNCHANGED <<sortVars, sanVars, capVars>>

\* the Generate button is clicked while the selected model's daily limit is
\* reached: addLog("Daily limit reached ..."), return
RunRefused ==
  /\ GenerateEnabled(phase)
  /\ IF metered
     THEN LimitReached(isUnlocked, selectedModelId, usage)
     ELSE RefusalsAtHead(logs) < MaxRefusals
  /\ UNCHANGED quotaVars
  /\ logs' = IF recording
             THEN addLog(logs, phase, <<"Daily limit reached">>, "error")
             ELSE logs
  /\ UNCHANGED recording
  /\ UNCHANGED <<phase, pc, stage, faults, phasesSeen, verifyVars, assemblyVars>>
  /\ UNCHANGED <<sortVars, sanVars, capVars>>

\* the model selector: onChange={() => setSelectedModelId(model.id)},
\* disabled={isLimitReached}
SelectModel ==
  /\ \E id \in ModelIds \ {selectedModelId} :
       /\ ~LimitReached(isUnlocked, id, usage)
       /\ selectedModelId' = id
  /\ UNCHANGED <<usage, isUnlocked, metered>>
  /\ UNCHANGED <<phase, pc, stage, faults, phasesSeen, verifyVars, assemblyVars,
                 logVars>>
  /\ UNCHANGED <<sortVars, sanVars, capVars>>

\* handleUnlock with the right code: setIsUnlocked(true), addLog(...)
Unlock ==
  /\ ~isUnlocked
  /\ isUnlocked' = TRUE
  /\ logs' = IF recording
             THEN addLog(logs, phase, <<"Premium Mode Unlocked">>, "success")
             ELSE logs
  /\ UNCHANGED <<usage, selectedModelId, metered, recording>>
  /\ UNCHANGED <<phase, pc, stage, faults, phasesSeen, verifyVars, assemblyVars>>
  /\ UNCHANGED <<sortVars, sanVars, capVars>>

\* generatePlan returns: every component gets a PENDING artifact, and
\* processComponent is entered for the first one
PlanReturn ==
  /\ pc = "planning"
  /\ \E p \in PipelinePlans :
       /\ plan' = p
       /\ components' = [id \in PlanIds(p) |-> NewArtifact(FindComponent(p, id))]
       /\ genReq' = [id \in PlanIds(p) |-> 0]
       /\ qcReq' = [id \in PlanIds(p) |-> 0]
       /\ attReq' = [id \in PlanIds(p) |-> 0]
       /\ asmQcReq' = [id \in PlanIds(p) |-> 0]
       /\ pc' = IF Len(p) = 0 THEN "assembly" ELSE "comp_loop"
  /\ Emit(<<<<<<"Plan generated">>, "success">>>>)
  /\ compIdx' = 1
  /\ verified' = FALSE
  /\ UNCHANGED <<phase, phasesSeen, stage, faults, validatedObjects, object3d,
                 contextImages, snapshots, sortedComponents, partIdx, attached,
                 retries, errorContext, rootObject, testRoot,
                 currentAssemblySnapshots, testSnapshots, attachedParts,
                 skippedParts>>
  /\ UNCHANGED <<sortVars, sanVars, capVars>>

\* generatePlan throws: the outer catch sets ERROR
PlanFail ==
  /\ pc = "planning"
  /\ faults < MaxFaults
  /\ faults' = faults + 1
  /\ Emit(<<<<<<"Critical Failure">>, "error">>>>)
  /\ SetPhases(<<OuterCatch.phase>>)
  /\ pc' = OuterCatch.pc
  /\ UNCHANGED <<stage, verifyVars, assemblyVars>>
  /\ UNCHANGED <<sortVars, sanVars, capVars>>

\* the verification loop's guard holds: setPhase(GENERATING or FIXING) and
\* the construction request is sent
ComponentAttempt ==
  /\ pc = "comp_loop"
  /\ ComponentLoopGuard(verified, components[CurId].retryCount)
  /\ SetPhases(<<GenerationPhase(components[CurId].retryCount)>>)
  /\ Emit(<<<<<<IF components[CurId].retryCount = 0 THEN "Generating" ELSE "Fixing",
               CurId, components[CurId].retryCount + 1>>, "info">>>>)
  /\ genReq' = Bump(genReq, CurId)
  /\ pc' = "comp_gen"
  /\ UNCHANGED <<stage, faults, plan, components, validatedObjects, object3d,
                 contextImages, compIdx, verified, snapshots, qcReq,
                 assemblyVars>>
  /\ UNCHANGED <<sortVars, sanVars, capVars>>

\* the loop is left without a verified object: processComponent throws and
\* runPipeline's catch sets ERROR
ComponentExhausted ==
  /\ pc = "comp_loop"
  /\ ~ComponentLoopGuard(verified, components[CurId].retryCount)
  /\ ProcessComponentThrows(verified)
  /\ Emit(<<<<<<"Critical Failure">>, "error">>>>)
  /\ SetPhases(<<OuterCatch.phase>>)
  /\ pc' = OuterCatch.pc
  /\ UNCHANGED <<stage, faults, verifyVars, assemblyVars>>
  /\ UNCHANGED <<sortVars, sanVars, capVars>>

\* processComponent returns: the next component of the plan, or assembly
ComponentReturn ==
  /\ pc = "comp_loop"
  /\ ~ComponentLoopGuard(verified, components[CurId].retryCount)
  /\ ~ProcessComponentThrows(verified)
  /\ Emit(<<>>)
  /\ IF compIdx < Len(plan)
     THEN /\ compIdx' = compIdx + 1
          /\ verified' = FALSE
          /\ pc' = "comp_loop"
     ELSE /\ pc' = "assembly"
          /\ UNCHANGED <<compIdx, verified>>
  /\ UNCHANGED <<phase, phasesSeen, stage, faults, plan, components,
                 validatedObjects, object3d, contextImages, snapshots, genReq,
                 qcReq, assemblyVars>>
  /\ UNCHANGED <<sortVars, sanVars, capVars>>

\* generateComponentCode returns code, which is executed: resetScene,
\* executeGeneratedCode, addObject, setPhase(QC_ANALYSIS); a throw of the
\* execution goes to the loop's catch
GenerateReturn ==
  /\ pc = "comp_gen"
  /\ \E kind \in ComponentCodeKinds \cup EmptyCodeKinds :
       LET code == [kind |-> kind, request |-> genReq[CurId]]
           art  == [components[CurId] EXCEPT !.code = code, !.status = "GENERATED"]
           run  == executeGeneratedCode(code, CurId)
       IN  IF run.threw
           THEN /\ faults < MaxFaults
                /\ faults' = faults + 1
                /\ components' = Put(components, CurId,
                      FailAttempt(art, <<"error", art.retryCount>>))
                /\ stage' = resetScene(stage)
                /\ Emit(<<<<<<"Error", CurId>>, "error">>>>)
                /\ pc' = "comp_loop"
                /\ UNCHANGED <<phase, phasesSeen, object3d>>
           ELSE /\ components' = Put(components, CurId, art)
                /\ object3d' = run.object
                /\ stage' = addObject(resetScene(stage), "object3d")
                /\ SetPhases(<<"QC_ANALYSIS">>)
                /\ Emit(<<<<<<"Performing Visual QC", CurId>>, "info">>>>)
                /\ pc' = "comp_capture"
                /\ UNCHANGED faults
  /\ UNCHANGED <<plan, validatedObjects, contextImages, compIdx, verified,
                 snapshots, genReq, qcReq, assemblyVars>>
  /\ UNCHANGED <<sortVars, sanVars, capVars>>

\* generateComponentCode throws: the loop's catch
GenerateFail ==
  /\ pc = "comp_gen"
  /\ faults < MaxFaults
  /\ faults' = faults + 1
  /\ components' = Put(components, CurId,
        FailAttempt(components[CurId], <<"error", components[CurId].retryCount>>))
  /\ Emit(<<<<<<"Error", CurId>>, "error">>>>)
  /\ pc' = "comp_loop"
  /\ UNCHANGED <<phase, phasesSeen, stage, plan, validatedObjects, object3d,
                 contextImages, compIdx, verified, snapshots, genReq, qcReq,
                 assemblyVars>>
  /\ UNCHANGED <<sortVars, sanVars, capVars>>

\* captureSnapshots of the candidate, then the visual QC request is sent
ComponentCapture ==
  /\ pc = "comp_capture"
  /\ DelayElapses
  /\ snapshots' = captureSnapshots(StageContent)
  /\ qcReq' = Bump(qcReq, CurId)
  /\ Emit(<<>>)
  /\ pc' = "comp_qc"
  /\ UNCHANGED <<phase, phasesSeen, stage, faults, plan, components,
                 validatedObjects, object3d, contextImages, compIdx, verified,
                 genReq, assemblyVars>>
  /\ UNCHANGED <<sortVars, sanVars, capVars>>

\* performVisualQC returns a verdict
QCReturn ==
  /\ pc = "comp_qc"
  /\ \E passed \in BOOLEAN :
       LET result == [passed |-> passed, request |-> qcReq[CurId],
                      feedback |-> <<"feedback", CurId, genReq[CurId]>>]
           art == [components[CurId] EXCEPT !.qcHistory = QcHistoryAfter(@, result)]
       IN  IF passed
           THEN /\ components' = Put(components, CurId,
                      [art EXCEPT !.status = "VERIFIED", !.images = snapshots])
                /\ verified' = TRUE
                /\ validatedObjects' =
                     ValidatedAfterQC(passed, validatedObjects, CurId, object3d)
                /\ contextImages' = ContextAfterQC(passed, contextImages, snapshots)
                /\ Emit(<<<<<<"QC PASSED", CurId>>, "success">>>>)
                /\ UNCHANGED faults
           ELSE /\ faults < MaxFaults
                /\ faults' = faults + 1
                /\ components' = Put(components, CurId,
                      [art EXCEPT !.status = "FAILED", !.retryCount = @ + 1])
                /\ contextImages' = ContextAfterQC(passed, contextImages, snapshots)
                /\ Emit(<<<<<<"QC FAILED", CurId, result.feedback>>, "warning">>>>)
                /\ validatedObjects' =
                     ValidatedAfterQC(passed, validatedObjects, CurId, object3d)
                /\ UNCHANGED verified
  /\ pc' = "comp_loop"
  /\ UNCHANGED <<phase, phasesSeen, stage, plan, object3d, compIdx, snapshots,
                 genReq, qcReq, assemblyVars>>
  /\ UNCHANGED <<sortVars, sanVars, capVars>>

\* performVisualQC throws: the loop's catch
QCFail ==
  /\ pc = "comp_qc"
  /\ faults < MaxFaults
  /\ faults' = faults + 1
  /\ components' = Put(components, CurId,
        FailAttempt(components[CurId], <<"error", components[CurId].retryCount>>))
  /\ Emit(<<<<<<"Error", CurId>>, "error">>>>)
  /\ pc' = "comp_loop"
  /\ UNCHANGED <<phase, phasesSeen, stage, plan, validatedObjects, object3d,
                 contextImages, compIdx, verified, snapshots, genReq, qcReq,
                 assemblyVars>>
  /\ UNCHANGED <<sortVars, sanVars, capVars>>

\* setPhase(ASSEMBLING); the plan is sequenced; its first component is the
\* anchor: a centred clone of its validated object, alone on the stage.
\* An empty sequence, or an anchor without a validated object, throws.
AssemblyStart ==
  /\ pc = "assembly"
  /\ LET sorted == sortComponentsTopologically(plan)
     IN  /\ sortedComponents' = sorted
         /\ IF sorted = <<>> \/ ~Has(validatedObjects, sorted[1].id)
            THEN /\ SetPhases(<<"ASSEMBLING", OuterCatch.phase>>)
                 /\ Emit(<<<<<<"Starting Step-by-Step Assembly">>, "info">>>> \o
                         (IF sorted = <<>> THEN <<>>
                          ELSE <<<<<<"Setting Anchor Component", sorted[1].id>>, "info">>>>) \o
                         <<<<<<"Critical Failure">>, "error">>>>)
                 /\ pc' = OuterCatch.pc
                 /\ UNCHANGED <<stage, rootObject, validatedObjects>>
            ELSE LET stored == validatedObjects[sorted[1].id]
                     anchor == CloneOfValidated(stored)
                 IN  /\ SetPhases(<<"ASSEMBLING">>)
                     /\ Emit(<<<<<<"Starting Step-by-Step Assembly">>, "info">>,
                              <<<<"Setting Anchor Component", sorted[1].id>>, "info">>>>)
                     /\ rootObject' = Recenter(anchor.object)
                     /\ validatedObjects' = Put(validatedObjects, sorted[1].id,
                           WrittenThrough(anchor, stored, Recenter(anchor.object)))
                     /\ stage' = addObject(resetScene(stage), "rootObject")
                     /\ pc' = "asm_capture"
  /\ UNCHANGED <<faults, plan, components, object3d, contextImages, compIdx,
                 verified, snapshots, genReq, qcReq, partIdx, attached, retries,
                 errorContext, testRoot, currentAssemblySnapshots, testSnapshots,
                 attReq, asmQcReq, attachedParts, skippedParts>>
  /\ UNCHANGED <<sortVars, sanVars, capVars>>

\* let currentAssemblySnapshots = await captureSnapshots(); the loop over
\* sortedComponents.slice(1) begins
AnchorCapture ==
  /\ pc = "asm_capture"
  /\ DelayElapses
  /\ currentAssemblySnapshots' = captureSnapshots(StageContent)
  /\ partIdx' = 2
  /\ Emit(<<>>)
  /\ pc' = "part_loop"
  /\ UNCHANGED <<phase, phasesSeen, stage, faults, verifyVars, sortedComponents,
                 attached, retries, errorContext, rootObject, testRoot,
                 testSnapshots, attReq, asmQcReq, attachedParts, skippedParts>>
  /\ UNCHANGED <<sortVars, sanVars, capVars>>

\* the loop over the parts is over: setPhase(COMPLETED)
AssemblyCompleted ==
  /\ pc = "part_loop"
  /\ partIdx > Len(sortedComponents)
  /\ Emit(<<<<<<"Assembly Completed">>, "success">>>>)
  /\ SetPhases(<<"COMPLETED">>)
  /\ pc' = "idle"
  /\ UNCHANGED <<stage, faults, verifyVars, assemblyVars>>
  /\ UNCHANGED <<sortVars, sanVars, capVars>>

\* the next part: continue when it has no artifact or is not VERIFIED,
\* otherwise attached = false, retries = 0, errorContext = ""
PartBegin ==
  /\ pc = "part_loop"
  /\ partIdx <= Len(sortedComponents)
  /\ IF ~Has(components, CurPart) \/ components[CurPart].status # "VERIFIED"
     THEN /\ partIdx' = partIdx + 1
          /\ Emit(IF ~Has(components, CurPart)
                  THEN <<<<<<"Skipping (Data not found)", CurPart>>, "error">>>>
                  ELSE <<<<<<"Skipping (Not Verified)", CurPart>>, "warning">>>>)
          /\ UNCHANGED <<pc, attached, retries, errorContext>>
     ELSE /\ Emit(<<<<<<"Attaching", CurPart>>, "info">>>>)
          /\ attached' = FALSE
          /\ retries' = 0
          /\ errorContext' = EmptyText
          /\ pc' = "att_loop"
          /\ UNCHANGED partIdx
  /\ UNCHANGED <<phase, phasesSeen, stage, faults, verifyVars, sortedComponents,
                 rootObject, testRoot, currentAssemblySnapshots, testSnapshots,
                 attReq, asmQcReq, attachedParts, skippedParts>>
  /\ UNCHANGED <<sortVars, sanVars, capVars>>

\* the attachment loop's guard holds: the attachment request is sent
AttachAttempt ==
  /\ pc = "att_loop"
  /\ AttachLoopGuard(attached, retries)
  /\ attReq' = Bump(attReq, CurPart)
  /\ Emit(<<>>)
  /\ pc' = "att_gen"
  /\ UNCHANGED <<phase, phasesSeen, stage, faults, verifyVars, sortedComponents,
                 partIdx, attached, retries, errorContext, rootObject, testRoot,
                 currentAssemblySnapshots, testSnapshots, asmQcReq,
                 attachedParts, skippedParts>>
  /\ UNCHANGED <<sortVars, sanVars, capVars>>

\* the loop is left without a commit: the stage is restored, next part
PartSkipped ==
  /\ pc = "att_loop"
  /\ ~AttachLoopGuard(attached, retries)
  /\ ~attached
  /\ stage' = StageAfterSkip(stage)
  /\ skippedParts' = skippedParts \cup {CurPart}
  /\ Emit(<<<<<<"Failed to attach", CurPart>>, "error">>>>)
  /\ partIdx' = partIdx + 1
  /\ pc' = "part_loop"
  /\ UNCHANGED <<phase, phasesSeen, faults, verifyVars, sortedComponents,
                 attached, retries, errorContext, rootObject, testRoot,
                 currentAssemblySnapshots, testSnapshots, attReq, asmQcReq,
                 attachedParts>>
  /\ UNCHANGED <<sortVars, sanVars, capVars>>

\* the loop is left after a commit: next part
PartAttached ==
  /\ pc = "att_loop"
  /\ ~AttachLoopGuard(attached, retries)
  /\ attached
  /\ Emit(<<>>)
  /\ partIdx' = partIdx + 1
  /\ pc' = "part_loop"
  /\ UNCHANGED <<phase, phasesSeen, stage, faults, verifyVars, sortedComponents,
                 attached, retries, errorContext, rootObject, testRoot,
                 currentAssemblySnapshots, testSnapshots, attReq, asmQcReq,
                 attachedParts, skippedParts>>
  /\ UNCHANGED <<sortVars, sanVars, capVars>>

\* an exception inside the attempt's try block
Caught(message) ==
  LET c == AttachCatch(message, retries)
  IN  /\ errorContext' = c.errorContext
      /\ retries' = c.retries
      /\ IF c.rethrown
         THEN /\ SetPhases(<<OuterCatch.phase>>)
              /\ Emit(<<<<<<"Critical Failure">>, "error">>>>)
              /\ pc' = OuterCatch.pc
         ELSE /\ Emit(<<<<<<"Attachment Runtime Error", CurPart>>, "error">>>>)
              /\ pc' = "att_loop"
              /\ UNCHANGED <<phase, phasesSeen>>

\* generateAttachmentCode returns code: testRoot = rootObject.clone(), the
\* part's clone, resetScene, addObject(testRoot), executeAttachmentCode
AttachGenerateReturn ==
  /\ pc = "att_gen"
  /\ \E code \in AttachCodes :
       IF ~Has(validatedObjects, CurPart)
       THEN /\ Caught(<<"error", CurPart, attReq[CurPart]>>)
            /\ UNCHANGED <<testRoot, stage, faults, validatedObjects>>
       ELSE LET stored  == validatedObjects[CurPart]
                partObj == CloneOfValidated(stored)
                run == executeAttachmentCode(code, CloneObject(rootObject),
                                             partObj.object)
            IN  /\ testRoot' = run.root
                /\ validatedObjects' = Put(validatedObjects, CurPart,
                      WrittenThrough(partObj, stored, run.part))
                /\ stage' = addObject(resetScene(stage), "testRoot")
                /\ IF run.threw
                   THEN /\ faults < MaxFaults
                        /\ faults' = faults + 1
                        /\ Caught(<<"error", CurPart, attReq[CurPart]>>)
                   ELSE /\ Emit(<<>>)
                        /\ pc' = "att_capture"
                        /\ UNCHANGED <<phase, phasesSeen, faults, retries, errorContext>>
  /\ UNCHANGED <<plan, components, object3d, contextImages, compIdx, verified,
                 snapshots, genReq, qcReq, sortedComponents, partIdx, attached,
                 rootObject, currentAssemblySnapshots, testSnapshots, attReq,
                 asmQcReq, attachedParts, skippedParts>>
  /\ UNCHANGED <<sortVars, sanVars, capVars>>

\* generateAttachmentCode throws
AttachGenerateFail ==
  /\ pc = "att_gen"
  /\ faults < MaxFaults
  /\ faults' = faults + 1
  /\ Caught(<<"error", CurPart, attReq[CurPart]>>)
  /\ UNCHANGED <<stage, verifyVars, sortedComponents, partIdx, attached,
                 rootObject, testRoot, currentAssemblySnapshots, testSnapshots,
                 attReq, asmQcReq, attachedParts, skippedParts>>
  /\ UNCHANGED <<sortVars, sanVars, capVars>>

\* testSnapshots = await captureSnapshots(); the assembly QC request is sent
AttachCapture ==
  /\ pc = "att_capture"
  /\ DelayElapses
  /\ testSnapshots' = captureSnapshots(StageContent)
  /\ asmQcReq' = Bump(asmQcReq, CurPart)
  /\ Emit(<<>>)
  /\ pc' = "att_qc"
  /\ UNCHANGED <<phase, phasesSeen, stage, faults, verifyVars, sortedComponents,
                 partIdx, attached, retries, errorContext, rootObject, testRoot,
                 currentAssemblySnapshots, attReq, attachedParts, skippedParts>>
  /\ UNCHANGED <<sortVars, sanVars, capVars>>

\* performAssemblyQC returns a verdict: commit, or feedback and retries++
AssemblyQCReturn ==
  /\ pc = "att_qc"
  /\ \E passed \in BOOLEAN :
       /\ rootObject' = AfterAssemblyQC(passed, rootObject, testRoot)
       /\ currentAssemblySnapshots' =
            AssemblySnapshotsAfterQC(passed, currentAssemblySnapshots, testSnapshots)
       /\ IF passed
          THEN /\ attached' = TRUE
               /\ attachedParts' = Append(attachedParts, CurPart)
               /\ Emit(<<<<<<"Attached Successfully", CurPart>>, "success">>>>)
               /\ UNCHANGED <<faults, retries, errorContext>>
          ELSE /\ faults < MaxFaults
               /\ faults' = faults + 1
               /\ errorContext' = <<"feedback", CurPart, attReq[CurPart]>>
               /\ Emit(<<<<<<"Attachment QC Failed", CurPart,
                            <<"feedback", CurPart, attReq[CurPart]>>>>, "warning">>>>)
               /\ retries' = retries + 1
               /\ UNCHANGED <<attached, attachedParts>>
  /\ pc' = "att_loop"
  /\ UNCHANGED <<phase, phasesSeen, stage, verifyVars, sortedComponents,
                 partIdx, testRoot, testSnapshots, attReq, asmQcReq,
                 skippedParts>>
  /\ UNCHANGED <<sortVars, sanVars, capVars>>

\* performAssemblyQC throws
AssemblyQCFail ==
  /\ pc = "att_qc"
  /\ faults < MaxFaults
  /\ faults' = faults + 1
  /\ Caught(<<"error", CurPart, attReq[CurPart]>>)
  /\ UNCHANGED <<stage, verifyVars, sortedComponents, partIdx, attached,
                 rootObject, testRoot, currentAssemblySnapshots, testSnapshots,
                 attReq, asmQcReq, attachedParts, skippedParts>>
  /\ UNCHANGED <<sortVars, sanVars, capVars>>


\* -------------------------------------------------------- specifications
SortNext == AddComponent \/ AddDependency \/ RunSort

SortSpec == Init /\ [][SortNext]_vars

SanNext == AppendFragment \/ OracleClean \/ SanitizeRaw \/ SanitizeAgain

SanSpec == Init /\ [][SanNext]_vars

CapNext == CapMount \/ CapAdd \/ CapReset \/ CapCapture

CaptureSpec == Init /\ [][CapNext]_vars

Next ==
  \/ StartRun \/ RunRefused \/ PlanReturn \/ PlanFail
  \/ ComponentAttempt \/ ComponentExhausted \/ ComponentReturn
  \/ GenerateReturn \/ GenerateFail \/ ComponentCapture \/ QCReturn \/ QCFail
  \/ AssemblyStart \/ AnchorCapture \/ AssemblyCompleted \/ PartBegin
  \/ AttachAttempt \/ PartSkipped \/ PartAttached
  \/ AttachGenerateReturn \/ AttachGenerateFail \/ AttachCapture
  \/ AssemblyQCReturn \/ AssemblyQCFail

Spec == Init /\ [][Next]_vars

\* the pipeline with its log stream
LogSpec == LogInit /\ [][Next]_vars

\* the pipeline with its usage counts, the model selector and the unlock
QuotaNext == Next \/ SelectModel \/ Unlock

QuotaSpec == QuotaInit /\ [][QuotaNext]_vars

\* the run's own steps: every oracle call and every render call eventually
\* returns or fails, and the handler then continues; nobody has to start a run
PipelineStep ==
  \/ PlanReturn \/ PlanFail
  \/ ComponentAttempt \/ ComponentExhausted \/ ComponentReturn
  \/ GenerateReturn \/ GenerateFail \/ ComponentCapture \/ QCReturn \/ QCFail
  \/ AssemblyStart \/ AnchorCapture \/ AssemblyCompleted \/ PartBegin
  \/ AttachAttempt \/ PartSkipped \/ PartAttached
  \/ AttachGenerateReturn \/ AttachGenerateFail \/ AttachCapture
  \/ AssemblyQCReturn \/ AssemblyQCFail

FairSpec == Spec /\ WF_vars(PipelineStep)

\* ----------------------------------------------------- sequencer claims
SortDone == sortPc = "sorted"

Sorted == sortOut.sorted

\* the in-plan dependency edges <<c, d>> of the plan: c declares d
PlanEdges(comps) ==
  {e \in PlanIds(comps) \X PlanIds(comps) :
     e[2] \in DepSet(FindComponent(comps, e[1]))}

\* d is placed at a smaller index than c
Before(seq, d, c) ==
  /\ \E i \in 1..Len(seq) : seq[i].id = d
  /\ \E i \in 1..Len(seq) : seq[i].id = c
  /\ IndexOf(seq, d) < IndexOf(seq, c)

\* every in-plan dependency of a component is listed before the component
PlanOrdered(comps) ==
  \A i \in 1..Len(comps) :
    \A d \in DepSet(comps[i]) \cap PlanIds(comps) :
      \E j \in 1..(i - 1) : comps[j].id = d

\* C6: for a plan with unique ids and an acyclic dependency graph, the
\* sequencer output places every in-plan dependency at a smaller index than
\* each component that depends on it.
C6_AcyclicOrder ==
  (SortDone /\ Acyclic(sortPlan)) =>
    \A e \in PlanEdges(sortPlan) : Before(Sorted, e[2], e[1])

\* a diamond was sequenced out of plan order: 1 needs 2 and 3, both need nothing
C6_Witness ==
  /\ SortDone
  /\ Acyclic(sortPlan)
  /\ Len(sortPlan) = 3
  /\ Cardinality(PlanEdges(sortPlan)) >= 2
  /\ ~PlanOrdered(sortPlan)
  /\ \A e \in PlanEdges(sortPlan) : Before(Sorted, e[2], e[1])

\* C7 as stated: for every plan with unique ids, whatever the shape of the
\* graph, every in-plan dependency appears earlier than its dependant.
C7_AnyGraphOrder ==
  SortDone => \A e \in PlanEdges(sortPlan) : Before(Sorted, e[2], e[1])

\* C7 amended: the output is a linear order of the plan in which every
\* in-plan dependency d of c appears earlier than c unless c is itself
\* reachable from d along dependency edges (the edge closes a cycle).
C7_OrderUpToCycles ==
  SortDone =>
    /\ Len(Sorted) = Len(sortPlan)
    /\ \A e \in PlanEdges(sortPlan) :
         \/ Before(Sorted, e[2], e[1])
         \/ Reaches(sortPlan, e[2], e[1])

\* a cyclic plan in which an edge off the cycle is respected and an edge on
\* the cycle is not
C7_Witness ==
  /\ SortDone
  /\ ~Acyclic(sortPlan)
  /\ \E e \in PlanEdges(sortPlan) :
       ~Reaches(sortPlan, e[2], e[1]) /\ Before(Sorted, e[2], e[1])
  /\ \E e \in PlanEdges(sortPlan) : ~Before(Sorted, e[2], e[1])

\* C8: for any plan with unique ids (cycles, self-dependencies and dangling
\* ids included) the sequencer finishes, after at most one visit body per
\* plan member and dangling id, and its output holds every plan component
\* exactly once and nothing else.
C8_Permutation ==
  SortDone =>
    /\ Len(Sorted) = Len(sortPlan)
    /\ \A i \in 1..Len(Sorted) :
         \E j \in 1..Len(sortPlan) : Sorted[i] = sortPlan[j]
    /\ \A j \in 1..Len(sortPlan) :
         Cardinality({i \in 1..Len(Sorted) : Sorted[i] = sortPlan[j]}) = 1
    /\ sortOut.calls =
         Cardinality(PlanIds(sortPlan)
                     \cup UNION {DepSet(sortPlan[j]) : j \in 1..Len(sortPlan)})

\* a plan with a cycle, a self-dependency or a dangling id was sequenced
C8_Witness ==
  /\ SortDone
  /\ Len(sortPlan) >= 2
  /\ ~Acyclic(sortPlan)
  /\ \E i \in 1..Len(sortPlan) : DanglingId \in DepSet(sortPlan[i])
  /\ Len(Sorted) = Len(sortPlan)

\* C9: a plan that already lists every in-plan dependency before its
\* dependant is returned in exactly the plan order.
C9_OrderedPlanKept ==
  (SortDone /\ PlanOrdered(sortPlan)) => Sorted = sortPlan

\* the plan [A, B needing A, C needing A] came back unchanged
C9_Witness ==
  /\ SortDone
  /\ Len(sortPlan) = 3
  /\ sortPlan[2].dependencies = <<sortPlan[1].id>>
  /\ sortPlan[3].dependencies = <<sortPlan[1].id>>
  /\ sortPlan[1].dependencies = <<>>
  /\ Sorted = sortPlan

\* ------------------------------------------------------ sanitizer claims
\* C10: sanitization is idempotent: sanitizeCode(sanitizeCode(x)) equals
\* sanitizeCode(x) for every text x, and the text cleanCode returns is not
\* changed again by sanitizeCode.
C10_Idempotent ==
  sanPc \in {"sanitized_twice", "cleaned_sanitized"} => sanCur = sanPrev

\* --------------------------------------------------- pipeline claims
Elems(seq) == {seq[i] : i \in 1..Len(seq)}

\* positions of runPipeline inside one attachment attempt
AttemptPcs == {"att_gen", "att_capture", "att_qc"}

\* positions of runPipeline after the initial anchor capture
AssemblyLoopPcs == {"part_loop", "att_loop"} \cup AttemptPcs

\* C1: every step of an attachment attempt that does not end in an
\* assembly-QC pass (a rejection, an execution error, an oracle failure, and
\* the steps in between) leaves the committed anchor's child list, position,
\* rotation and scale as they were.
C1_CommitAtomicity ==
  [][(pc \in AttemptPcs /\ ~attached') =>
       /\ rootObject'.children = rootObject.children
       /\ rootObject'.position = rootObject.position
       /\ rootObject'.rotation = rootObject.rotation
       /\ rootObject'.scale = rootObject.scale]_vars

\* C1 witness: a part's second attempt was rejected by assembly QC, and the
\* rejected draft differs from the committed anchor in children and position.
C1_Witness ==
  /\ pc = "att_loop"
  /\ retries >= 2
  /\ Len(errorContext) > 0
  /\ errorContext[1] = "feedback"
  /\ testRoot.children # rootObject.children
  /\ testRoot.position # rootObject.position

\* C2: no component's retryCount exceeds 4, and no component gets more than
\* 4 generation requests or more than 4 QC requests.
C2_RetryBound ==
  \A id \in DOMAIN components :
    /\ components[id].retryCount <= 4
    /\ genReq[id] <= 4
    /\ qcReq[id] <= 4

\* C2 witness: a component was rejected by QC four times.
C2_Witness ==
  \E id \in DOMAIN components :
    /\ components[id].retryCount = 4
    /\ genReq[id] = 4
    /\ qcReq[id] = 4

\* C3: a component that has failed 4 attempts has status FAILED, the run is
\* at the loop exit that throws or has ended in ERROR, and neither ASSEMBLING
\* nor COMPLETED was entered in that run.
C3_ExhaustionIsFatal ==
  \A id \in DOMAIN components :
    components[id].retryCount = 4 =>
      /\ components[id].status = "FAILED"
      /\ id = CurId
      /\ \/ pc = "comp_loop" /\ ~verified
         \/ pc = "idle" /\ phase = "ERROR"
      /\ "ASSEMBLING" \notin phasesSeen
      /\ "COMPLETED" \notin phasesSeen

\* C3 witness: a run ended in ERROR on a component that failed 4 attempts,
\* by QC rejection and by error.
C3_Witness ==
  \E id \in DOMAIN components :
    /\ components[id].retryCount = 4
    /\ phase = "ERROR"
    /\ Len(components[id].errorLogs) > 0
    /\ Len(components[id].qcHistory) > 0

C5_AttachFailuresNotFatal ==
  /\ [][(pc \in AttemptPcs /\ pc' \notin AttemptPcs /\ ~attached') =>
          /\ retries' = retries + 1
          /\ pc' = "att_loop"
          /\ phase' = "ASSEMBLING"]_vars
  /\ [][(pc \in AssemblyLoopPcs) => (phase' \in {"ASSEMBLING", "COMPLETED"})]_vars
  /\ [](pc \in AssemblyLoopPcs => phase = "ASSEMBLING")
  /\ ((pc \in AssemblyLoopPcs) ~> (phase = "COMPLETED"))

\* C5 witness: a completed run in which a part was attached after an attempt
\* of it had failed before reaching assembly QC.
C5_Witness ==
  /\ phase = "COMPLETED"
  /\ \E id \in Elems(attachedParts) :
       /\ attReq[id] >= 2
       /\ asmQcReq[id] < attReq[id]


\* first snapshots of the components processed before the current one, in
\* plan order (the order in which they were verified)
EarlierFirstSnapshots ==
  [i \in 1..(compIdx - 1) |-> components[plan[i].id].images[1]]

\* C11: at every component generation request and every component QC
\* request the context image list is the sequence of first snapshots of the
\* components verified earlier, in verification order; every image shows a
\* verified component other than the current one, as built by the code that
\* passed QC.
C11_ContextImages ==
  /\ pc = "comp_gen" => GenerateRequest.contextImages = EarlierFirstSnapshots
  /\ pc = "comp_qc" => VisualQCRequest.contextImages = EarlierFirstSnapshots
  /\ pc \in {"comp_gen", "comp_qc"} =>
       \A k \in 1..Len(contextImages) :
         LET shown == contextImages[k].scene[1]
         IN  /\ shown.component = plan[k].id
             /\ shown.component # CurId
             /\ components[shown.component].status = "VERIFIED"
             /\ shown.build = components[shown.component].code.request

\* C11 witness: the QC request of the third component, whose two
\* predecessors were each verified after a rejected attempt.
C11_Witness ==
  /\ pc = "comp_qc"
  /\ compIdx = 3
  /\ Len(VisualQCRequest.contextImages) = 2
  /\ \A i \in 1..2 : components[plan[i].id].retryCount > 0
                     /\ Len(components[plan[i].id].qcHistory) > 1

\* C12: when assembly is about to start, and ever after ASSEMBLING was
\* entered in a run (COMPLETED included), every component of the plan has
\* status VERIFIED; and whenever the assembly loop tests a part, the part has
\* an artifact with status VERIFIED, so the skip branches are not taken.
C12_AssemblyOnlyVerified ==
  /\ (pc = "assembly" \/ "ASSEMBLING" \in phasesSeen \/ phase = "COMPLETED") =>
       \A i \in 1..Len(plan) :
         /\ Has(components, plan[i].id)
         /\ components[plan[i].id].status = "VERIFIED"
  /\ (pc = "part_loop" /\ partIdx <= Len(sortedComponents)) =>
       /\ Has(components, CurPart)
       /\ components[CurPart].status = "VERIFIED"

\* C12 witness: the assembly loop tests the last part of a three-component
\* plan one of whose components was verified on its fourth attempt.
C12_Witness ==
  /\ pc = "part_loop"
  /\ Len(plan) = 3
  /\ partIdx = 3
  /\ \E id \in DOMAIN components : components[id].retryCount = 3

\* C13: the step in which the planning oracle fails takes the phase from
\* PLANNING to ERROR with no phase in between and ends the run; no artifact
\* exists, nothing was generated, executed, rendered or judged, and nothing
\* is on the stage.
C13_PlanningFailure ==
  [][(pc = "planning" /\ faults' > faults) =>
       /\ phase = "PLANNING"
       /\ phase' = "ERROR"
       /\ phasesSeen' = {"PLANNING", "ERROR"}
       /\ pc' = "idle"
       /\ plan' = <<>>
       /\ components' = EmptyMap
       /\ validatedObjects' = EmptyMap
       /\ genReq' = EmptyMap /\ qcReq' = EmptyMap
       /\ attReq' = EmptyMap /\ asmQcReq' = EmptyMap
       /\ object3d' = NoObject
       /\ snapshots' = <<>>
       /\ contextImages' = <<>>
       /\ stage' = <<>>]_vars

\* C13 witness: a run has ended in ERROR by a planning failure.
C13_Witness ==
  /\ phase = "ERROR"
  /\ pc = "idle"
  /\ phasesSeen = {"PLANNING", "ERROR"}
  /\ faults = 1
  /\ components = EmptyMap

\* C14: in ERROR no run is in flight, and a step taken in ERROR either
\* changes nothing (no phase, no oracle call, no stage content, no artifact)
\* or is the start of a new run, which sets PLANNING.
C14_ErrorTerminal ==
  /\ [](phase = "ERROR" => pc = "idle")
  /\ [][phase = "ERROR" =>
          \/ UNCHANGED pipeVars
          \/ /\ phase' = "PLANNING"
             /\ pc' = "planning"
             /\ phasesSeen' = {"PLANNING"}]_vars

\* C14 witness: a run has ended in ERROR on an exhausted component, with
\* its last candidate still on the stage.
C14_Witness ==
  /\ phase = "ERROR"
  /\ "FIXING" \in phasesSeen
  /\ stage = <<"object3d">>

\* C15: under weak fairness of the run's own steps (every oracle call and
\* every render call returns or fails), a run in flight eventually ends, in
\* COMPLETED or in ERROR.
C15_RunsEnd ==
  [](pc # "idle" => <>(pc = "idle" /\ phase \in {"COMPLETED", "ERROR"}))

\* C15 witness: a run on a plan of maximal length has completed after as
\* many failures as the model injects.
C15_Witness ==
  /\ pc = "idle"
  /\ phase = "COMPLETED"
  /\ Len(plan) = MaxPlanLen
  /\ faults = MaxFaults

\* the attempt before the one in flight was rejected by the QC oracle
PreviousAttemptRejected ==
  LET art == components[CurId]
  IN  /\ Len(art.qcHistory) > 0
      /\ ~art.qcHistory[1].passed
      /\ art.qcHistory[1].feedback = <<"feedback", CurId, genReq[CurId] - 1>>

\* C16: when the component's previous attempt was rejected by the QC oracle,
\* the error context of the generation request in flight, as argument and in
\* the prompt, is the feedback of that rejection.
C16_FeedbackIsNextContext ==
  (pc = "comp_gen" /\ PreviousAttemptRejected) =>
    /\ GenerateRequest.errorContext = components[CurId].qcHistory[1].feedback
    /\ GenerateRequest.prompt.errorContext = components[CurId].qcHistory[1].feedback

\* the three cases of the error context of the generation request in flight
ErrorContextCases ==
  LET art == components[CurId]
      req == GenerateRequest
      rejected == Len(art.qcHistory) > 0 /\ ~art.qcHistory[1].passed
  IN  /\ (Len(art.errorLogs) > 0 /\ rejected) =>
           req.errorContext = art.errorLogs[Len(art.errorLogs)]
      /\ (Len(art.errorLogs) = 0 /\ rejected) =>
           req.errorContext = art.qcHistory[1].feedback
      /\ genReq[CurId] = 1 => req.errorContext = EmptyText

\* C17 as stated: the three cases of the error context, and the previous
\* code supplied is the code of the immediately preceding attempt.
C17_ContextAndPreviousCode ==
  pc = "comp_gen" =>
    /\ ErrorContextCases
    /\ genReq[CurId] > 1 =>
         GenerateRequest.previousCode.request = genReq[CurId] - 1

\* C17 amended: the three cases of the error context; the previous code
\* supplied is the code the component's most recent returned generation
\* request stored (none before any returned): a component's code changes
\* only when its generation request in flight returns, to that request's code.
C17_ContextAndLatestCode ==
  /\ [](pc = "comp_gen" =>
          /\ ErrorContextCases
          /\ GenerateRequest.previousCode.request < genReq[CurId]
          /\ genReq[CurId] = 1 => GenerateRequest.previousCode = NoCode)
  /\ [][\A id \in DOMAIN components \cap DOMAIN components' :
          components'[id].code # components[id].code =>
            /\ pc = "comp_gen"
            /\ id = CurId
            /\ components'[id].code.request = genReq[id]]_vars

\* C17 witness: a third generation request of a component whose first
\* attempt was rejected by QC and whose second generation request failed:
\* an error and a rejection are recorded, and the code is that of attempt 1.
C17_Witness ==
  /\ pc = "comp_gen"
  /\ genReq[CurId] = 3
  /\ Len(components[CurId].errorLogs) = 1
  /\ Len(components[CurId].qcHistory) = 1
  /\ GenerateRequest.previousCode.request = 1
  /\ GenerateRequest.errorContext = components[CurId].errorLogs[1]

\* C18: at every attachment request after the first for a part, the prompt
\* the attachment oracle receives carries the feedback or error message of
\* the part's immediately preceding attempt and no code of an earlier attempt.
C18_AttachRetryContext ==
  (pc = "att_gen" /\ attReq[CurPart] > 1) =>
    /\ AttachRequest.errorContext \in
         {<<"feedback", CurPart, attReq[CurPart] - 1>>,
          <<"error", CurPart, attReq[CurPart] - 1>>}
    /\ AttachRequest.previousCode = NoCode
    /\ AttachRequest.prompt.previousCode = NoCode
    /\ AttachRequest.prompt.errorContext = AttachRequest.errorContext

\* C19: a step in which the generation request returns code that does not
\* construct an object (it fails to parse, throws, or returns something else)
\* appends one message to the component's errorLogs, sets its status to
\* FAILED, adds exactly 1 to its retryCount, issues no QC and no further
\* generation request, leaves the phase alone and returns to the loop head.
C19_ExecutionErrorStaysInLoop ==
  [][(/\ pc = "comp_gen"
      /\ components'[CurId].code.request = genReq[CurId]
      /\ components'[CurId].code.kind # "object") =>
       LET before == components[CurId]
           after  == components'[CurId]
       IN  /\ Len(after.errorLogs) = Len(before.errorLogs) + 1
           /\ SubSeq(after.errorLogs, 1, Len(before.errorLogs)) = before.errorLogs
           /\ after.status = "FAILED"
           /\ after.retryCount = before.retryCount + 1
           /\ after.qcHistory = before.qcHistory
           /\ qcReq' = qcReq
           /\ genReq' = genReq
           /\ phase' = phase
           /\ pc' = "comp_loop"
           /\ ~verified'
           /\ validatedObjects' = validatedObjects
           /\ stage' = <<>>]_vars

\* C19 witness: the code of a component's second attempt has just failed in
\* execution; no QC request was issued for the component so far.
C19_Witness ==
  /\ pc = "comp_loop"
  /\ genReq[CurId] = 2
  /\ components[CurId].code.request = 2
  /\ components[CurId].code.kind = "invalid"
  /\ components[CurId].status = "FAILED"
  /\ Len(components[CurId].errorLogs) = 2
  /\ qcReq[CurId] = 0

\* C20: whenever snapshots are about to be captured, the stage holds exactly
\* one top-level object: in the verification loop the object built from the
\* code of the current attempt of the current component, at the initial
\* assembly capture the anchor alone, in the attachment loop a copy of the
\* committed root with the current part added by the current attempt.
C20_OneObjectOnStage ==
  /\ pc \in {"comp_capture", "asm_capture", "att_capture"} => Len(stage) = 1
  /\ pc = "comp_capture" =>
       /\ stage = <<"object3d">>
       /\ StageContent[1].component = CurId
       /\ StageContent[1].build = genReq[CurId]
       /\ StageContent[1].children = <<>>
  /\ pc = "asm_capture" =>
       /\ stage = <<"rootObject">>
       /\ StageContent[1].component = sortedComponents[1].id
       /\ StageContent[1] = Recenter(CloneObject(validatedObjects[sortedComponents[1].id]))
  /\ pc = "att_capture" =>
       /\ stage = <<"testRoot">>
       /\ StageContent[1].component = sortedComponents[1].id
       /\ StageContent[1].children = Append(rootObject.children, CurPart)

\* C20 witness: a capture in the attachment loop after an earlier part was
\* attached and an earlier attempt for the current part was rejected.
C20_Witness ==
  /\ pc = "att_capture"
  /\ retries >= 1
  /\ Len(rootObject.children) >= 1
  /\ Len(stage) = 1

\* C21: while the attachment request of a retry is in flight after the
\* previous attempt for the same part was rejected by assembly QC, the stage
\* holds the last committed assembly state (the committed anchor, or an
\* object equal to it), not the rejected draft.
C21_StageRestoredBeforeRetry ==
  (/\ pc = "att_gen"
   /\ retries >= 1
   /\ errorContext = <<"feedback", CurPart, attReq[CurPart] - 1>>) =>
     StageContent = <<rootObject>>

\* ------------------------------------------------------ log stream claims
\* old is what is left of new when the events added since are dropped
\* (the stream is kept newest first)
KeepsEvents(old, new) ==
  /\ Len(new) >= Len(old)
  /\ SubSeq(new, Len(new) - Len(old) + 1, Len(new)) = old

\* C22 (as stated): no step removes or alters an emitted event or changes
\* the relative order of emitted events.
C22_LogAppendOnly == [][KeepsEvents(logs, logs')]_vars

\* C22 (amended): every step other than the start of a run keeps all emitted
\* events, unaltered and in their order; the start of a run empties the
\* stream, which then holds the run's first event only.
C22_LogAppendOnlyWithinRun ==
  [][IF pc = "idle" /\ pc' = "planning"
     THEN Len(logs') = 1 /\ logs'[1].message = <<"Initiating">>
     ELSE KeepsEvents(logs, logs')]_vars

\* C22 witness: a run has completed with two parts attached, and a refused
\* run request has added an event to the stream of that run.
C22_Witness ==
  /\ pc = "idle"
  /\ phase = "COMPLETED"
  /\ Len(attachedParts) = 2
  /\ RefusalsAtHead(logs) = 1
  /\ Len(logs) >= 12
  /\ logs[Len(logs)].message = <<"Initiating">>

\* ------------------------------------------------ more pipeline claims
\* C23: a step of a run (any step but the start of the next run) leaves every
\* VERIFIED component's artifact (status, code, retryCount, qcHistory,
\* errorLogs, images) as it is and issues no generation request and no QC
\* request for it.
C23_VerifiedIsFrozen ==
  [][~(pc = "idle" /\ pc' = "planning") =>
       \A id \in DOMAIN components :
          components[id].status = "VERIFIED" =>
            /\ id \in DOMAIN components'
            /\ components'[id] = components[id]
            /\ genReq'[id] = genReq[id]
            /\ qcReq'[id] = qcReq[id]]_vars

\* C23 witness: the first component was verified on its second attempt, and
\* the run is waiting for the QC verdict on the second component.
C23_Witness ==
  /\ pc = "comp_qc"
  /\ compIdx = 2
  /\ components[plan[1].id].status = "VERIFIED"
  /\ components[plan[1].id].retryCount = 1
  /\ Len(components[plan[1].id].images) = NumViews

\* C24: a step in which assembly QC passes makes the committed anchor's
\* child list, position, rotation and scale equal to the draft's and makes
\* the running assembly snapshot set the set captured from that draft; and
\* whenever an attachment request is in flight, the assembly snapshot set it
\* was given is a capture of the committed anchor as it is now (the latest
\* commit, or the initial anchor), never a capture of a rejected draft.
C24_CommitAndSnapshots ==
  /\ [](pc = "att_gen" =>
          /\ AttachRequest.currentAssemblyImages = captureSnapshots(<<rootObject>>)
          /\ (testRoot # rootObject =>
                AttachRequest.currentAssemblyImages # captureSnapshots(<<testRoot>>)))
  /\ [][(pc = "att_qc" /\ attached') =>
          /\ rootObject'.children = testRoot.children
          /\ rootObject'.position = testRoot.position
          /\ rootObject'.rotation = testRoot.rotation
          /\ rootObject'.scale = testRoot.scale
          /\ testSnapshots = captureSnapshots(<<testRoot>>)
          /\ currentAssemblySnapshots' = testSnapshots]_vars

\* C24 witness: a request for the second part is in flight after the first
\* part was committed and an earlier draft with the second part was rejected.
C24_Witness ==
  /\ pc = "att_gen"
  /\ Len(attachedParts) = 1
  /\ retries >= 1
  /\ errorContext = <<"feedback", CurPart, attReq[CurPart] - 1>>
  /\ testSnapshots = captureSnapshots(<<testRoot>>)
  /\ testSnapshots # currentAssemblySnapshots
  /\ Len(rootObject.children) = 1

\* C25: no part gets more than 4 attachment requests or assembly-QC requests
\* and the attempt counter never exceeds 4; inside an attempt the number of
\* requests made for the current part is its attempt counter plus one, so the
\* counter counts the current part's attempts only and starts at 0 for every
\* part; after a pass no further request is made for the part, and no part
\* is committed twice.
C25_AttachAttemptBound ==
  /\ [](/\ retries <= 4
        /\ \A id \in DOMAIN attReq : attReq[id] <= 4 /\ asmQcReq[id] <= attReq[id]
        /\ Cardinality(Elems(attachedParts)) = Len(attachedParts)
        /\ (pc \in AttemptPcs => attReq[CurPart] = retries + 1))
  /\ [][(pc = "part_loop" /\ pc' = "att_loop") =>
          (retries' = 0 /\ ~attached' /\ attReq[CurPart] = 0)]_vars
  /\ [][~(pc = "idle" /\ pc' = "planning") =>
          \A id \in Elems(attachedParts) :
             attReq'[id] = attReq[id] /\ asmQcReq'[id] = asmQcReq[id]]_vars

\* C25 witness: the first part was skipped after 4 attempts, and the first
\* request for the next part is in flight with the attempt counter at 0.
C25_Witness ==
  /\ pc = "att_gen"
  /\ partIdx = 3
  /\ retries = 0
  /\ attReq[sortedComponents[2].id] = 4
  /\ sortedComponents[2].id \in skippedParts
  /\ attReq[CurPart] = 1

\* positions of runPipeline in the assembly phase
AssemblyPcs == {"assembly", "asm_capture"} \cup AssemblyLoopPcs

\* C26: no step of the assembly phase changes a stored verified object;
\* throughout that phase the object stored for a component (the anchor's
\* included) is the object its verified code built; and the draft an
\* attachment attempt leaves is the result of running attachment logic on a
\* copy of the committed anchor, which itself stays as it was.
C26_VerifiedObjectsUntouched ==
  /\ [][(pc \in AssemblyPcs) => (validatedObjects' = validatedObjects)]_vars
  /\ [](pc \in AssemblyPcs =>
          \A id \in DOMAIN validatedObjects :
             validatedObjects[id] =
               executeGeneratedCode(components[id].code, id).object)
  /\ [][(pc = "att_gen" /\ testRoot' # testRoot) =>
          /\ rootObject' = rootObject
          /\ \E code \in AttachCodes :
                testRoot' = executeAttachmentCode(code, rootObject,
                                                  validatedObjects[CurPart]).root]_vars

\* C26 witness: a run completed with two parts attached; the committed
\* anchor was recentred, moved and given children, while the object stored
\* for the anchor's component is still as built.
C26_Witness ==
  /\ phase = "COMPLETED"
  /\ pc = "idle"
  /\ Len(attachedParts) = 2
  /\ Len(rootObject.children) = 2
  /\ rootObject.position # <<"built">>
  /\ validatedObjects[sortedComponents[1].id].position = <<"built">>
  /\ validatedObjects[sortedComponents[1].id].children = <<>>

\* C27: a component with a non-empty image set has status VERIFIED; a
\* verified object is stored for exactly the components with status
\* VERIFIED; and when assembly is about to start, and while it runs, an
\* object is stored for every component of the sequence.
C27_ImagesAndObjects ==
  /\ DOMAIN validatedObjects \subseteq DOMAIN components
  /\ \A id \in DOMAIN components :
       /\ (components[id].images # <<>> => components[id].status = "VERIFIED")
       /\ (Has(validatedObjects, id) <=> components[id].status = "VERIFIED")
  /\ pc = "assembly" =>
       \A c \in Elems(sortComponentsTopologically(plan)) :
          Has(validatedObjects, c.id)
  /\ pc \in AssemblyPcs \ {"assembly"} =>
       \A c \in Elems(sortedComponents) : Has(validatedObjects, c.id)

\* C27 witness: assembly is about to start for a three-component plan one of
\* whose components was rejected by QC before it was verified.
C27_Witness ==
  /\ pc = "assembly"
  /\ Len(plan) = 3
  /\ \E id \in DOMAIN components :
       /\ components[id].retryCount >= 1
       /\ Len(components[id].qcHistory) >= 2
       /\ Len(components[id].images) = NumViews
       /\ Has(validatedObjects, id)

\* the phases of the verification loop
VerificationPhases == {"GENERATING", "FIXING", "QC_ANALYSIS"}

\* C28: a run starts in PLANNING; a verification phase is entered only from
\* PLANNING or a verification phase and never after ASSEMBLING was entered;
\* ASSEMBLING is entered only from PLANNING or a verification phase;
\* COMPLETED is entered only from ASSEMBLING; when ERROR is entered the run is
\* over; and an attempt is announced as FIXING exactly when the component's
\* retryCount is at least 1.
C28_PhaseSequence ==
  /\ [](/\ (pc # "idle" => "PLANNING" \in phasesSeen)
        /\ ("ASSEMBLING" \in phasesSeen =>
              phase \in {"ASSEMBLING", "COMPLETED", "ERROR"})
        /\ (phase = "COMPLETED" =>
              "ASSEMBLING" \in phasesSeen /\ "ERROR" \notin phasesSeen)
        /\ (phase = "ERROR" => pc = "idle"))
  /\ [][(phase' # phase) =>
          /\ (phase' = "PLANNING" =>
                phase \in {"IDLE", "COMPLETED", "ERROR"} /\ pc = "idle")
          /\ (phase' \in VerificationPhases =>
                /\ phase \in {"PLANNING"} \cup VerificationPhases
                /\ "ASSEMBLING" \notin phasesSeen)
          /\ (phase' = "ASSEMBLING" =>
                phase \in {"PLANNING"} \cup VerificationPhases)
          /\ (phase' = "COMPLETED" => phase = "ASSEMBLING")
          /\ (phase' = "ERROR" => pc' = "idle")
          /\ phase' # "IDLE"]_vars
  /\ [][(pc = "comp_loop" /\ pc' = "comp_gen") =>
          /\ phase' \in {"GENERATING", "FIXING"}
          /\ (phase' = "FIXING" <=> components[CurId].retryCount >= 1)]_vars

\* C28 witness: a run has completed in which a component had to be fixed.
C28_Witness ==
  /\ phase = "COMPLETED"
  /\ phasesSeen = {"PLANNING", "GENERATING", "FIXING", "QC_ANALYSIS",
                   "ASSEMBLING", "COMPLETED"}
  /\ \E id \in DOMAIN components : components[id].retryCount >= 1

\* ------------------------------------------------------- capture claims
\* the directions the claim lists: x outermost, then y, then z, + before -
ExpectedDirections ==
  << <<1, 1, 1>>, <<1, 1, -1>>, <<1, -1, 1>>, <<1, -1, -1>>,
     <<-1, 1, 1>>, <<-1, 1, -1>>, <<-1, -1, 1>>, <<-1, -1, -1>> >>

\* the content the last capture rendered
CapturedContent == capShots[1].scene

\* the stage has been captured at least once since it was set up
CapturedOnce == capDistance # NoDistance

\* C29: a capture on an initialised stage returns exactly 8 images, one for
\* each combination of + and - on the three axes, in the order x outermost,
\* then y, then z, with + before -, all of the same stage content, whatever
\* that content is
C29_EightViewsInOrder ==
  CapturedOnce =>
    /\ Len(capShots) = 8
    /\ \A k \in 1..8 :
         /\ <<capShots[k].x, capShots[k].y, capShots[k].z>> = ExpectedDirections[k]
         /\ capShots[k].scene = CapturedContent
    /\ \A j, k \in 1..8 :
         j # k => <<capShots[j].x, capShots[j].y, capShots[j].z>>
                    # <<capShots[k].x, capShots[k].y, capShots[k].z>>

\* a stage with two different objects, one of them not finite, was captured
C29_Witness ==
  /\ CapturedOnce
  /\ Len(capShots) = NumViews
  /\ Len(CapturedContent) = 2
  /\ CapturedContent[1] # CapturedContent[2]
  /\ CapturedContent[2].y = NaN

\* the content is degenerate: zero maximum extent, or a computed distance
\* that is not finite
Degenerate(content) ==
  LET extent == MaxDim(BoxSize(content))
  IN  \/ extent = Num(0)
      \/ ~isFinite(ComputedDistance(extent))

\* C30: a capture of degenerate content (zero maximum extent, or a computed
\* distance that is not finite) uses the default camera distance 5, and the
\* distance used by any capture is finite and not zero
C30_CameraDistanceSafe ==
  CapturedOnce =>
    /\ isFinite(capDistance)
    /\ capDistance.val # 0
    /\ Degenerate(CapturedContent) => capDistance = Num(DefaultCameraDistance)

\* a stage holding a single zero-size point was captured at distance 5
C30_Witness ==
  /\ CapturedOnce
  /\ CapturedContent = <<[x |-> Num(0), y |-> Num(0), z |-> Num(0)]>>
  /\ capDistance = Num(5000)

\* ------------------------------------------------ more sequencer claims
\* c and d lie on a common dependency cycle
OnCommonCycle(comps, c, d) == Reaches(comps, c, d) /\ Reaches(comps, d, c)

\* C31: for a plan with unique ids, an in-plan dependency edge from c to d
\* is violated by the sequencer output (d placed after c) only if c and d
\* lie on a common dependency cycle; every edge that is on no cycle is
\* respected, also when the plan has cycles elsewhere.
C31_ViolatedOnlyOnCycles ==
  SortDone =>
    \A e \in PlanEdges(sortPlan) :
      /\ Before(Sorted, e[1], e[2]) => OnCommonCycle(sortPlan, e[1], e[2])
      /\ ~OnCommonCycle(sortPlan, e[1], e[2]) => Before(Sorted, e[2], e[1])

\* a plan of three components was sequenced in which two form a cycle whose
\* closing edge is violated, and the third, listed first, depends on a
\* member of the cycle and is placed after it
C31_Witness ==
  /\ SortDone
  /\ Len(sortPlan) = 3
  /\ \E e \in PlanEdges(sortPlan) :
       /\ e[1] # e[2]
       /\ OnCommonCycle(sortPlan, e[1], e[2])
       /\ Before(Sorted, e[1], e[2])
  /\ \E e \in PlanEdges(sortPlan) :
       /\ e[1] = sortPlan[1].id
       /\ ~OnCommonCycle(sortPlan, e[1], e[2])
       /\ Reaches(sortPlan, e[2], e[2])
       /\ Before(Sorted, e[2], e[1])

\* ------------------------------------------------- last pipeline claims
\* the number of non-passing results in a QC history
NonPassing(history) ==
  Cardinality({i \in 1..Len(history) : ~history[i].passed})

\* runPipeline is at the head of processComponent's while loop
AtIterationBoundary == pc = "comp_loop"

\* retryCount = entries of errorLogs + non-passing results of qcHistory
RetryCountAccounted(art) ==
  art.retryCount = Len(art.errorLogs) + NonPassing(art.qcHistory)

\* C32 as stated: at every iteration boundary of the verification loop a
\* component's retryCount equals the number of its errorLogs entries plus
\* the number of non-passing results in its qcHistory, and the head of its
\* qcHistory is the result of the most recent QC request made for it.
C32_RetryCountAndLatestRequest ==
  AtIterationBoundary =>
    \A id \in DOMAIN components :
      /\ RetryCountAccounted(components[id])
      /\ qcReq[id] > 0 =>
           /\ components[id].qcHistory # <<>>
           /\ components[id].qcHistory[1].request = qcReq[id]

\* results are kept newest first: each came from a later request than the
\* one behind it, and none from a request not yet made
NewestFirst(history, requests) ==
  /\ \A i \in 1..Len(history) : history[i].request \in 1..requests
  /\ \A i \in 1..(Len(history) - 1) : history[i].request > history[i + 1].request

\* C32 amended: at every iteration boundary of the verification loop a
\* component's retryCount equals the number of its errorLogs entries plus
\* the number of non-passing results in its qcHistory, and the head of its
\* qcHistory is the result of the most recent QC request for it that
\* returned a result: a request that threw leaves the history as it was.
C32_RetryCountAndLatestResult ==
  /\ [](AtIterationBoundary =>
          \A id \in DOMAIN components :
            /\ RetryCountAccounted(components[id])
            /\ NewestFirst(components[id].qcHistory, qcReq[id]))
  /\ [][(pc = "comp_qc") =>
          (IF components'[CurId].qcHistory # components[CurId].qcHistory
           THEN /\ components'[CurId].qcHistory[1].request = qcReq[CurId]
                /\ Tail(components'[CurId].qcHistory) = components[CurId].qcHistory
           ELSE Len(components'[CurId].errorLogs)
                  = Len(components[CurId].errorLogs) + 1)]_vars

\* a component at an iteration boundary with an execution error, a rejected
\* result and, ahead of it, the passing result of a later request
C32_Witness ==
  /\ AtIterationBoundary
  /\ LET art == components[CurId]
     IN  /\ art.retryCount = 2
         /\ Len(art.errorLogs) = 1
         /\ Len(art.qcHistory) = 2
         /\ art.qcHistory[1].passed
         /\ ~art.qcHistory[2].passed
         /\ art.qcHistory[1].request = qcReq[CurId]

\* the plan request returned a plan with zero components and runPipeline
\* has not gone on yet
EmptyPlanReturned == pc = "assembly" /\ plan = <<>>

\* no construction, QC, attachment or assembly-QC request has been made
NoOracleCallAfterPlanning ==
  /\ \A id \in DOMAIN genReq : genReq[id] = 0
  /\ \A id \in DOMAIN qcReq : qcReq[id] = 0
  /\ \A id \in DOMAIN attReq : attReq[id] = 0
  /\ \A id \in DOMAIN asmQcReq : asmQcReq[id] = 0

\* C33: a plan with zero components ends the run in ERROR: the phase passes
\* from PLANNING to ASSEMBLING and then to ERROR, no oracle is called after
\* planning, and the phase is never COMPLETED.
C33_EmptyPlanEndsInError ==
  /\ [](EmptyPlanReturned =>
          /\ phase = "PLANNING"
          /\ phasesSeen = {"PLANNING"}
          /\ NoOracleCallAfterPlanning)
  /\ [][EmptyPlanReturned =>
          /\ phase' = "ERROR"
          /\ phasesSeen' = {"PLANNING", "ASSEMBLING", "ERROR"}
          /\ pc' = "idle"
          /\ NoOracleCallAfterPlanning']_vars

\* a run with an empty plan has ended in ERROR after ASSEMBLING was set
C33_Witness ==
  /\ pc = "idle"
  /\ plan = <<>>
  /\ phase = "ERROR"
  /\ phasesSeen = {"PLANNING", "ASSEMBLING", "ERROR"}
  /\ sortedComponents = <<>>

\* the events a step adds at the head of the stream (all of the stream when
\* the step started a run and emptied it first)
EmittedEvents(old, new) ==
  IF KeepsEvents(old, new)
  THEN SubSeq(new, 1, Len(new) - Len(old))
  ELSE new

\* C34: every log event records in its phase field the pipeline phase that
\* is active when the event is emitted: the phase the step starts in, a
\* phase the step sets before emitting, or the phase it ends in.
C34_EventsCarryActivePhase ==
  [][\A i \in 1..Len(EmittedEvents(logs, logs')) :
       EmittedEvents(logs, logs')[i].phase
         \in {phase, phase'} \cup (phasesSeen' \ phasesSeen)]_vars

\* a run is in flight: runPipeline has been entered and has not returned
RunInFlight == pc # "idle"

\* C35: a run can be started only while the phase is IDLE, COMPLETED or
\* ERROR, and in those phases no run is in flight; so at most one run is in
\* flight at any time, and the stage, the component map and the stored
\* verified objects are never used by two runs at once.
C35_OneRunAtATime ==
  /\ [](RunInFlight => phase \notin {"IDLE", "COMPLETED", "ERROR"})
  /\ [][(phase' = "PLANNING" /\ pc' = "planning") =>
          /\ phase \in {"IDLE", "COMPLETED", "ERROR"}
          /\ ~RunInFlight]_vars

\* a run is in flight with a verified object stored, a second component on
\* the stage under QC, and the Generate button disabled
C35_Witness ==
  /\ RunInFlight
  /\ pc = "comp_qc"
  /\ compIdx = 2
  /\ DOMAIN validatedObjects # {}
  /\ stage # <<>>
  /\ ~GenerateEnabled(phase)

\* nothing is kept from an earlier run: no artifact, no stored verified
\* object, no context image, nothing on the stage
NothingKept ==
  /\ components = EmptyMap
  /\ validatedObjects = EmptyMap
  /\ contextImages = <<>>
  /\ stage = <<>>

\* every artifact is the initial one of its plan component
AllArtifactsFresh ==
  /\ DOMAIN components = PlanIds(plan)
  /\ \A id \in DOMAIN components :
       components[id] = NewArtifact(FindComponent(plan, id))

\* C36: starting a new run from COMPLETED or ERROR clears the component map
\* and the stored verified objects and resets the stage before planning,
\* and the context image list starts empty; when the plan arrives every
\* artifact is a fresh one (retryCount 0, no code, no history), so nothing
\* of an earlier run is used by the later run.
C36_RunStartsClean ==
  /\ [][(phase \in {"COMPLETED", "ERROR"} /\ phase' = "PLANNING") => NothingKept']_vars
  /\ [](pc = "planning" => NothingKept)
  /\ [][(pc = "planning" /\ pc' # "planning" /\ phase' = "PLANNING") =>
          /\ AllArtifactsFresh'
          /\ validatedObjects' = EmptyMap
          /\ contextImages' = <<>>
          /\ stage' = <<>>]_vars

\* a run that was started from COMPLETED (its first event says so) has its
\* plan of two components and is about to make its first request
C36_Witness ==
  /\ pc = "comp_loop"
  /\ compIdx = 1
  /\ Len(plan) = 2
  /\ logs # <<>>
  /\ logs[Len(logs)].phase = "COMPLETED"
  /\ logs[1].message = <<"Plan generated">>
  /\ AllArtifactsFresh
  /\ validatedObjects = EmptyMap

\* --------------------------------------------------------- usage claims
\* the daily limit of a model
DailyLimit(id) == ModelDef(id).dailyLimit

\* premium is not unlocked, the Generate button can be clicked, and the
\* selected model's count has reached its daily limit
RequestWouldBeRefused ==
  /\ ~isUnlocked
  /\ GenerateEnabled(phase)
  /\ CurrentCount(usage, selectedModelId) >= DailyLimit(selectedModelId)

\* a step in which runPipeline passes its limit check and starts a run
RunStarts == phase # "PLANNING" /\ phase' = "PLANNING" /\ pc' = "planning"

\* C37: while premium is not unlocked, a run request for a model whose
\* count has reached its daily limit changes neither the phase, the
\* component map, the stage nor the count; every run that is started adds
\* exactly 1 to the selected model's count and nothing else changes a
\* count (so the 1 stays when the run ends in ERROR); and the counts never
\* exceed the daily limits.
C37_UsageWithinLimit ==
  /\ [][RequestWouldBeRefused =>
          /\ phase' = phase
          /\ components' = components
          /\ stage' = stage
          /\ usage' = usage]_vars
  /\ [][(RunStarts /\ ~isUnlocked) =>
          \A m \in ModelIds :
            CurrentCount(usage', m) =
              CurrentCount(usage, m) + (IF m = selectedModelId THEN 1 ELSE 0)]_vars
  /\ [][(usage' # usage) => RunStarts]_vars
  /\ [](\A m \in ModelIds : CurrentCount(usage, m) <= DailyLimit(m))

\* the run that used up the second tier's last run of the day has ended in
\* ERROR, premium is still locked, and the next request will be refused
C37_Witness ==
  /\ metered
  /\ pc = "idle"
  /\ phase = "ERROR"
  /\ ~isUnlocked
  /\ selectedModelId = "gemini-2.5-pro"
  /\ usage["gemini-2.5-pro"] = LoadedUsage["gemini-2.5-pro"] + 1
  /\ usage["gemini-2.5-pro"] = DailyLimit("gemini-2.5-pro")
  /\ RequestWouldBeRefused

====
